---- MODULE Spec2Model ----
(***************************************************************************)
(* A model of the hist_scanner collection-and-delivery pipeline:           *)
(*   - browser adapters (ChromiumBrowser.GetHistory, FirefoxBrowser.       *)
(*     GetHistory) reading a history store above a watermark,              *)
(*   - the state.Manager watermark store (Load/Save/Get/Set),              *)
(*   - sender.Client (Send, buildChunks, sendChunk, sendWithGzip, sendRaw),*)
(*   - scanner.Scanner (New, Run, scanProfile).                            *)
(*                                                                         *)
(* Spec      the scanner: a sequence of processes, each New -> Run         *)
(*           (user enumeration, one scanProfile per discovered profile,    *)
(*           Save, exit code).                                             *)
(* SpecSend  Client.Send applied to batches drawn from a bounded set, with *)
(*           the full log of the HTTP requests it issues.                  *)
(*                                                                         *)
(* Not modelled: SendResult.BytesSent/BytesOriginal, logging, and the      *)
(* SafariBrowser adapter (float64 timestamps).  Rows are assumed to scan   *)
(* (rows.Scan never fails), so GetHistory returns every selected row.      *)
(***************************************************************************)
EXTENDS Integers, Sequences, FiniteSets, TLC

(***************************************************************************)
(* Bounds of the model.                                                    *)
(***************************************************************************)
\* SpecSend: largest number of sites in a batch handed to Client.Send
MaxSites == 4
\* number of scanner processes started one after the other
MaxRuns == 2
\* largest number of rows in the chromium profile's history store
MaxRecords == 2
\* largest number of rows in the firefox profile's history store
MaxRecordsFx == 1
\* the clock (Unix ms) when the first process starts, and its last value
StartNow == 8
MaxNow == 9
\* one day in model milliseconds (time.AddDate works in days)
DayMs == 2
\* cfg.InitialDays: days of look-back on first contact
InitialDays == 2
\* SpecState: the workers, the calls they make in all, the largest timestamp
MaxWorkers == 2
MaxCalls == 3
MaxValue == 2
\* SpecPersist: the watermarks a process sets between Load and Save
MaxSets == 1
\* SpecDb: how often the browser writes its store
MaxWrites == 2
\* SpecIni: the longest profiles.ini, in lines
MaxLines == 3

(***************************************************************************)
(* Program constants.                                                      *)
(***************************************************************************)
\* Seconds between 1601-01-01 and 1970-01-01.  The source has 11644473600;
\* the model keeps a whole number of seconds that fits the checker's
\* integers: both conversions only add and subtract it.
ChromiumEpochSec == 11
ChromiumEpochUs == ChromiumEpochSec * 1000000
\* per-entry JSON overhead estimate used by buildChunks
EntryOverhead == 40
\* http.StatusUnsupportedMediaType
StatusUnsupportedMediaType == 415

ExitSuccess == 0
ExitPartialFailure == 1
ExitCompleteFailure == 2

(***************************************************************************)
(* Go helpers.                                                             *)
(***************************************************************************)
\* Go's integer division truncates toward zero
GoDiv(a, b) == IF a >= 0 THEN a \div b ELSE -((-a) \div b)

Range(s) == {s[i] : i \in DOMAIN s}

\* error values: nil, *httpError{statusCode}, or a wrapped transport error
Nil == [kind |-> "nil", code |-> 0]
HttpError(status) == [kind |-> "http", code |-> status]
RequestFailed == [kind |-> "transport", code |-> 0]

(***************************************************************************)
(* The environment: users, browsers, profiles and their history stores.    *)
(***************************************************************************)
\* the profiles that exist on the machine, in Run's iteration order
\* (users, then browser.All(), then FindProfiles)
AllContainers ==
    << [user |-> "alice", browser |-> "chrome",  profile |-> "Default"],
       [user |-> "bob",   browser |-> "firefox", profile |-> "default-release"] >>

Containers == 1 .. Len(AllContainers)

AllUsers == << "alice", "bob" >>

\* the URLs of a store; URLLen is len(site.URL)
URLs == 1 .. MaxRecords
URLLen(u) == IF u <= 4 THEN << 500, 600, 300, 1500 >>[u] ELSE 200

\* native last-visit times, in microseconds since the Unix epoch
TimesUs == {4500, 5500}

\* the native epoch offset of a browser's store
EpochUs(browser) == IF browser = "firefox" THEN 0 ELSE ChromiumEpochUs

\* history stores of at most n rows: row i holds URL i (the urls/moz_places
\* tables hold one row per URL), rows in ascending native time
Stores(browser, n) ==
    UNION { { s \in [1 .. k -> [url : URLs, native : {EpochUs(browser) + t : t \in TimesUs}]] :
                /\ \A i \in 1 .. k : s[i].url = i
                /\ \A i \in 1 .. k - 1 : s[i].native <= s[i + 1].native }
            : k \in 0 .. n }

(***************************************************************************)
(* Browser adapters.                                                       *)
(***************************************************************************)
\* the conversions of the adapters between Unix milliseconds and the
\* native unit: of the watermark before the query, of a row after it
ChromiumFromUnixMs(ms) == (ms * 1000) + ChromiumEpochUs
ChromiumToUnixMs(native) == GoDiv(native - ChromiumEpochUs, 1000)
FirefoxFromUnixMs(ms) == ms * 1000
FirefoxToUnixMs(native) == GoDiv(native, 1000)

\* SELECT url, last_visit_time FROM urls WHERE last_visit_time > ?
\* ORDER BY last_visit_time ASC
ChromiumGetHistory(rows, sinceTimestamp) ==
    LET chromiumTimestamp == IF sinceTimestamp > 0
                             THEN ChromiumFromUnixMs(sinceTimestamp)
                             ELSE 0
        sel == SelectSeq(rows, LAMBDA r : r.native > chromiumTimestamp)
    IN  [i \in 1 .. Len(sel) |->
            [URL |-> sel[i].url,
             Timestamp |-> ChromiumToUnixMs(sel[i].native)]]

\* SELECT url, last_visit_date FROM moz_places WHERE last_visit_date > ?
FirefoxGetHistory(rows, sinceTimestamp) ==
    LET firefoxTimestamp == FirefoxFromUnixMs(sinceTimestamp)
        sel == SelectSeq(rows, LAMBDA r : r.native > firefoxTimestamp)
    IN  [i \in 1 .. Len(sel) |->
            [URL |-> sel[i].url,
             Timestamp |-> FirefoxToUnixMs(sel[i].native)]]

GetHistory(browser, rows, sinceTimestamp) ==
    IF browser = "firefox"
    THEN FirefoxGetHistory(rows, sinceTimestamp)
    ELSE ChromiumGetHistory(rows, sinceTimestamp)

(***************************************************************************)
(* state.Manager                                                           *)
(***************************************************************************)
makeKey(username, browserName, profileName) ==
    username \o "/" \o browserName \o "/" \o profileName

KeyOf(c) == makeKey(AllContainers[c].user, AllContainers[c].browser,
                    AllContainers[c].profile)

\* the (username, browserName, profileName) tuples the workers of SpecState
\* use: the scanner's first container, a Firefox profile whose Name in
\* profiles.ini is "firefox/x", and the Firefox profile "x" of a user whose
\* name in /etc/passwd is "alice/firefox"
StateTuples ==
    { << "alice", "chrome", "Default" >>,
      << "alice", "firefox", "firefox/x" >>,
      << "alice/firefox", "firefox", "x" >> }

TupleKey(t) == makeKey(t[1], t[2], t[3])

Keys == {KeyOf(c) : c \in Containers} \cup {TupleKey(t) : t \in StateTuples}

\* a map[string]int64 over the keys in use; a missing key reads as 0
EmptyMap == [k \in Keys |-> 0]

GetLastTimestamp(m, username, browserName, profileName) ==
    m[makeKey(username, browserName, profileName)]

SetLastTimestamp(m, username, browserName, profileName, timestamp) ==
    [m EXCEPT ![makeKey(username, browserName, profileName)] = timestamp]

\* Manager.mu, a sync.RWMutex: the worker holding the write lock (0 when
\* none does) and the workers holding the read lock
Unlocked == [writer |-> 0, readers |-> {}]

\* an RLock that does not wait for the writer
CanRLock_IgnoreWriter(m) == TRUE

\* RLock blocks while a writer holds the lock
CanRLock(m) == m.writer = 0
\* Lock blocks while a writer or a reader holds the lock
CanLock(m) == m.writer = 0 /\ m.readers = {}

RLock(m, w) == [m EXCEPT !.readers = @ \cup {w}]
RUnlock(m, w) == [m EXCEPT !.readers = @ \ {w}]
Lock(m, w) == [m EXCEPT !.writer = w]
Unlock(m) == [m EXCEPT !.writer = 0]

(***************************************************************************)
(* sender.Client                                                           *)
(***************************************************************************)
\* what the server does with one request: it answers with a status code,
\* or the request fails in transport (connection error, timeout)
Statuses == {200, 415, 500}
TransportError == [transport |-> TRUE, status |-> 0]
Answer(s) == [transport |-> FALSE, status |-> s]
Responses == {TransportError} \cup {Answer(s) : s \in Statuses}
\* the answers drawn in Spec: the scanner only sees whether a chunk was
\* confirmed, so one success and one error status (the one with a retry) do
ScanResponses == {Answer(200), Answer(415)}

NewClient(maxChunkSizeKB, compress) ==
    [maxChunkSize |-> maxChunkSizeKB * 1024, compress |-> compress]

\* json.Marshal and gzip, as injective encodings of their argument
Marshal(payload) == [json |-> payload]
Gzip(data) == [gzip |-> TRUE, data |-> data]
Raw(data) == [gzip |-> FALSE, data |-> data]

\* httpClient.Do followed by the status check of sendWithGzip/sendRaw
DoRequest(resp) ==
    IF resp.transport THEN RequestFailed
    ELSE IF resp.status < 200 \/ resp.status >= 300 THEN HttpError(resp.status)
    ELSE Nil

sendWithGzip(data, resp) ==
    [req |-> [ContentEncoding |-> "gzip", body |-> Gzip(data)],
     err |-> DoRequest(resp)]

sendRaw(data, resp) ==
    [req |-> [ContentEncoding |-> "", body |-> Raw(data)],
     err |-> DoRequest(resp)]

\* a check that takes every HTTP error status for 415
isUnsupportedMediaType_AnyStatus(err) == err.kind = "http"

isUnsupportedMediaType(err) ==
    err.kind = "http" /\ err.code = StatusUnsupportedMediaType

\* a sendChunk without the uncompressed retry
sendChunk_NoFallback(c, payload, resp1, resp2) ==
    LET data == Marshal(payload) IN
    IF c.compress
    THEN LET gz == sendWithGzip(data, resp1) IN
         [err |-> gz.err, reqs |-> << gz.req >>]
    ELSE LET raw == sendRaw(data, resp1) IN
         [err |-> raw.err, reqs |-> << raw.req >>]

\* sendChunk(payload): resp1 answers the first request, resp2 the second
\* one if there is one.  reqs is the sequence of requests issued.
sendChunk(c, payload, resp1, resp2) ==
    LET data == Marshal(payload) IN
    IF c.compress
    THEN LET gz == sendWithGzip(data, resp1) IN
         IF gz.err = Nil
         THEN [err |-> Nil, reqs |-> << gz.req >>]
         ELSE IF isUnsupportedMediaType(gz.err)
              THEN LET raw == sendRaw(data, resp2) IN
                   [err |-> raw.err, reqs |-> << gz.req, raw.req >>]
              ELSE [err |-> gz.err, reqs |-> << gz.req >>]
    ELSE LET raw == sendRaw(data, resp1) IN
         [err |-> raw.err, reqs |-> << raw.req >>]

MakeChunk(payload, sites) ==
    [Principal |-> payload.Principal, Source |-> payload.Source,
     VisitedSites |-> sites]

\* a seal test that looks at the current chunk without the entry to add
SealBefore_IgnoreEntry(c, currentSites, currentSize, entrySize) ==
    LET estimatedCompressedSize == IF c.compress
                                   THEN (currentSize * 3) \div 10
                                   ELSE currentSize
    IN  Len(currentSites) > 0
        /\ estimatedCompressedSize > c.maxChunkSize

\* a seal test that applies the compression ratio to the current chunk and
\* the entry to add together
SealBefore_RatioOnSum(c, currentSites, currentSize, entrySize) ==
    LET estimatedCompressedSize == IF c.compress
                                   THEN ((currentSize + entrySize) * 3) \div 10
                                   ELSE currentSize + entrySize
    IN  Len(currentSites) > 0
        /\ estimatedCompressedSize > c.maxChunkSize

\* the seal test of buildChunks for the entry about to be added
SealBefore(c, currentSites, currentSize, entrySize) ==
    LET estimatedCompressedSize == IF c.compress
                                   THEN (currentSize * 3) \div 10
                                   ELSE currentSize
    IN  Len(currentSites) > 0
        /\ estimatedCompressedSize + entrySize > c.maxChunkSize

\* a buildChunks that forgets the chunk still open when the batch ends
RECURSIVE buildChunksFrom_NoFlush(_, _, _, _, _, _)
buildChunksFrom_NoFlush(c, payload, i, chunks, currentSites, currentSize) ==
    IF i > Len(payload.VisitedSites)
    THEN chunks
    ELSE LET site == payload.VisitedSites[i]
             entrySize == URLLen(site.URL) + EntryOverhead
         IN  IF SealBefore(c, currentSites, currentSize, entrySize)
             THEN buildChunksFrom_NoFlush(c, payload, i + 1,
                                  Append(chunks, MakeChunk(payload, currentSites)),
                                  << site >>, entrySize)
             ELSE buildChunksFrom_NoFlush(c, payload, i + 1, chunks,
                                  Append(currentSites, site),
                                  currentSize + entrySize)

RECURSIVE buildChunksFrom(_, _, _, _, _, _)
buildChunksFrom(c, payload, i, chunks, currentSites, currentSize) ==
    IF i > Len(payload.VisitedSites)
    THEN IF Len(currentSites) > 0
         THEN Append(chunks, MakeChunk(payload, currentSites))
         ELSE chunks
    ELSE LET site == payload.VisitedSites[i]
             entrySize == URLLen(site.URL) + EntryOverhead
         IN  IF SealBefore(c, currentSites, currentSize, entrySize)
             THEN buildChunksFrom(c, payload, i + 1,
                                  Append(chunks, MakeChunk(payload, currentSites)),
                                  << site >>, entrySize)
             ELSE buildChunksFrom(c, payload, i + 1, chunks,
                                  Append(currentSites, site),
                                  currentSize + entrySize)

buildChunks(c, payload) == buildChunksFrom(c, payload, 1, << >>, << >>, 0)

\* the largest Timestamp of sites, starting from m (the inner loop of Send)
RECURSIVE MaxTimestampFrom(_, _, _)
MaxTimestampFrom(sites, i, m) ==
    IF i > Len(sites) THEN m
    ELSE MaxTimestampFrom(sites, i + 1,
                          IF sites[i].Timestamp > m THEN sites[i].Timestamp ELSE m)

EmptyResult == [TotalSent |-> 0, ChunksSent |-> 0, LastError |-> Nil, FailedCount |-> 0]

\* a chunk loop that counts failed chunks, not their records, in FailedCount
RECURSIVE SendLoop_NoFailedCount(_, _, _, _, _)
SendLoop_NoFailedCount(c, chunks, resps, i, acc) ==
    IF i > Len(chunks) THEN acc
    ELSE LET chunk == chunks[i]
             step(out) ==
               IF out.err # Nil
               THEN SendLoop_NoFailedCount(c, chunks, resps, i + 1,
                      [acc EXCEPT !.result.LastError = out.err,
                                  !.result.FailedCount = @ + 1,
                                  !.confirmed = Append(@, FALSE),
                                  !.reqs = Append(@, out.reqs)])
               ELSE SendLoop_NoFailedCount(c, chunks, resps, i + 1,
                      [acc EXCEPT !.result.TotalSent = @ + Len(chunk.VisitedSites),
                                  !.result.ChunksSent = @ + 1,
                                  !.maxTimestamp = MaxTimestampFrom(chunk.VisitedSites, 1, @),
                                  !.confirmed = Append(@, TRUE),
                                  !.reqs = Append(@, out.reqs)])
         IN  step(sendChunk(c, chunk, resps[i][1], resps[i][2]))

\* a chunk loop that gives up at the first failed chunk
RECURSIVE SendLoop_StopAtFailure(_, _, _, _, _)
SendLoop_StopAtFailure(c, chunks, resps, i, acc) ==
    IF i > Len(chunks) THEN acc
    ELSE LET chunk == chunks[i]
             step(out) ==
               IF out.err # Nil
               THEN [acc EXCEPT !.result.LastError = out.err,
                                !.result.FailedCount = @ + Len(chunk.VisitedSites),
                                !.confirmed = Append(@, FALSE),
                                !.reqs = Append(@, out.reqs)]
               ELSE SendLoop_StopAtFailure(c, chunks, resps, i + 1,
                      [acc EXCEPT !.result.TotalSent = @ + Len(chunk.VisitedSites),
                                  !.result.ChunksSent = @ + 1,
                                  !.maxTimestamp = MaxTimestampFrom(chunk.VisitedSites, 1, @),
                                  !.confirmed = Append(@, TRUE),
                                  !.reqs = Append(@, out.reqs)])
         IN  step(sendChunk(c, chunk, resps[i][1], resps[i][2]))

\* the chunk loop of Send.  acc carries result and maxTimestamp, and two
\* records of what happened: confirmed[i] (chunk i was sent without error)
\* and reqs[i] (the requests issued for chunk i).
RECURSIVE SendLoop(_, _, _, _, _)
SendLoop(c, chunks, resps, i, acc) ==
    IF i > Len(chunks) THEN acc
    ELSE LET chunk == chunks[i]
             step(out) ==
               IF out.err # Nil
               THEN SendLoop(c, chunks, resps, i + 1,
                      [acc EXCEPT !.result.LastError = out.err,
                                  !.result.FailedCount = @ + Len(chunk.VisitedSites),
                                  !.confirmed = Append(@, FALSE),
                                  !.reqs = Append(@, out.reqs)])
               ELSE SendLoop(c, chunks, resps, i + 1,
                      [acc EXCEPT !.result.TotalSent = @ + Len(chunk.VisitedSites),
                                  !.result.ChunksSent = @ + 1,
                                  !.maxTimestamp = MaxTimestampFrom(chunk.VisitedSites, 1, @),
                                  !.confirmed = Append(@, TRUE),
                                  !.reqs = Append(@, out.reqs)])
         IN  step(sendChunk(c, chunk, resps[i][1], resps[i][2]))

\* a Send that reports any chunk failure as its error
SendError_AnyFailure(result) == result.LastError

\* what Send returns when every chunk failed
SendError(result) ==
    IF result.TotalSent = 0 /\ result.LastError # Nil THEN result.LastError ELSE Nil

\* Send(payload) -> (result, maxTimestamp, err), with chunks, confirmed and
\* reqs kept for the properties
Send(c, payload, resps) ==
    IF Len(payload.VisitedSites) = 0
    THEN [result |-> EmptyResult, maxTimestamp |-> 0, err |-> Nil,
          chunks |-> << >>, confirmed |-> << >>, reqs |-> << >>]
    ELSE LET return(chunks, acc, err) ==
                 [result |-> acc.result,
                  maxTimestamp |-> IF err # Nil THEN 0 ELSE acc.maxTimestamp,
                  err |-> err,
                  chunks |-> chunks, confirmed |-> acc.confirmed, reqs |-> acc.reqs]
             loop(chunks, acc) == return(chunks, acc, SendError(acc.result))
             send(chunks) ==
                 loop(chunks, SendLoop(c, chunks, resps, 1,
                                 [result |-> EmptyResult, maxTimestamp |-> 0,
                                  confirmed |-> << >>, reqs |-> << >>]))
         IN  send(buildChunks(c, payload))

\* the answers the server can give to the requests of one chunk: the second
\* answer is only consumed after a 415 to a compressed request
ResponsePairs(c, R) ==
    {p \in R \X R :
        \/ c.compress /\ ~p[1].transport /\ p[1].status = StatusUnsupportedMediaType
        \/ p[2] = p[1]}

(***************************************************************************)
(* scanner.Scanner                                                         *)
(***************************************************************************)
VARIABLES
    store,          \* store[c]: the rows of profile c's history database
    file,           \* the durable state file: key -> timestamp
    now,            \* the wall clock, Unix ms
    runs,           \* number of processes started so far
    pc,             \* "idle" (no process), "created" (New returned), "scanning"
    data,           \* Manager.data of the running process
    dryRun,         \* Scanner.dryRun
    client,         \* Scanner.client (unused when dryRun)
    work,           \* the profiles Run iterates over, in order
    idx,            \* position of Run's profile loop in work
    successCount,   \* Run's local counters
    failureCount,
    result,         \* Run's ScanResult
    last,           \* record of the latest scanProfile call
    outcome,        \* outcome[c]: how profile c ended in the current run
    delivered,      \* delivered[c]: URLs confirmed by the server so far
    due,            \* due[c]: URLs that were above the effective watermark at some scan
    prev,           \* prev[c]: summary of the previous sending scan of c
    enum,           \* what GetAllUsers did in the current run
    call,           \* SpecSend: the latest Client.Send call
    mu,             \* SpecState: Manager.mu, a sync.RWMutex
    wk,             \* SpecState: each worker's call of the Manager
    hist,           \* SpecState: the sets applied, in the order of their writes
    mgr,            \* SpecPersist: the Manager of the running process
    disk,           \* SpecPersist: the state files on the durable medium
    proc,           \* SpecPersist: the process, its configuration and its Save
    callers,        \* SpecLock: the workers' calls of the Manager's methods
    orig,           \* SpecDb: the side files next to the original store
    temp,           \* SpecDb: the files of the session's temporary copy
    sess,           \* SpecDb: the read session (one GetHistory call)
    ff              \* SpecIni: a Firefox profiles directory and FindProfiles' result

vars == << store, file, now, runs, pc, data, dryRun, client, work, idx,
           successCount, failureCount, result, last, outcome, delivered,
           due, prev, enum, call, mu, wk, hist, mgr, disk, proc, callers,
           orig, temp, sess, ff >>

scanVars == << store, file, now, runs, pc, data, dryRun, client, work, idx,
               successCount, failureCount, result, last, outcome, delivered,
               due, prev, enum >>

stateVars == << mu, wk, hist >>

persistVars == << mgr, disk, proc >>

\* the variables of the specifications other than Spec, SpecSend and SpecState
dbVars == << orig, temp, sess >>

extraVars == << persistVars, callers, dbVars, ff >>

NewUserPrincipal(username) == [Name |-> username, Kind |-> "USERNAME"]
NewIPPrincipal(ip) == [Name |-> ip, Kind |-> "IP"]
\* getLocalIP() of the machine
LocalIP == "192.0.2.1/host"
\* cfg.Source
Source == "hist_scanner"
\* cfg.ChunkSizeKB of the scanner's configurations
ScanChunkSizesKB == {1}

NoSend == [result |-> EmptyResult, maxTimestamp |-> 0, err |-> Nil,
           chunks |-> << >>, confirmed |-> << >>, reqs |-> << >>]

\* a read error that is dropped
HistoryError_Dropped == [kind |-> "nil", code |-> 0]

\* fmt.Errorf("failed to get history: %w", err), fmt.Errorf("failed to send: %w", err)
HistoryError == [kind |-> "failed to get history", code |-> 0]
SendFailed(err) == [kind |-> "failed to send: " \o err.kind, code |-> err.code]

\* time.Now().AddDate(0, 0, -InitialDays).UnixMilli()
LookBack(clock) == clock - InitialDays * DayMs

\* a scanProfile that always reads from the look-back horizon
EffectiveTimestamp_IgnoreStored(stored, clock) == LookBack(clock)

\* a scanProfile without the look-back substitution
EffectiveTimestamp_NoSubstitution(stored, clock) == stored

\* the timestamp scanProfile reads with
EffectiveTimestamp(stored, clock) == IF stored = 0 THEN LookBack(clock) ELSE stored

\* a scanProfile that forgets to update the state
UpdateState_Skip(m, cont, maxTimestamp) == m

\* the watermark update at the end of scanProfile
UpdateState(m, cont, maxTimestamp) ==
    IF maxTimestamp > 0
    THEN SetLastTimestamp(m, cont.user, cont.browser, cont.profile, maxTimestamp)
    ELSE m

\* a scanProfile that reports an empty read as an error
scanProfile_EmptyIsError(c, m, clock, dry, cl, rows, readOk, resps) ==
    LET cont == AllContainers[c]
        stored == GetLastTimestamp(m, cont.user, cont.browser, cont.profile)
        lastTimestamp == EffectiveTimestamp(stored, clock)
        entries == GetHistory(cont.browser, rows, lastTimestamp)
        principal == IF cont.user = "" THEN NewIPPrincipal(LocalIP)
                     ELSE NewUserPrincipal(cont.user)
        payload == [Principal |-> principal, Source |-> Source,
                    VisitedSites |-> entries]
        base == [sent |-> 0, err |-> Nil, data |-> m,
                 lastTimestamp |-> lastTimestamp, entries |-> << >>,
                 called |-> FALSE, send |-> NoSend]
    IN  IF ~readOk THEN [base EXCEPT !.err = HistoryError]
        ELSE IF Len(entries) = 0 THEN [base EXCEPT !.err = HistoryError]
        ELSE IF dry THEN [base EXCEPT !.sent = Len(entries), !.entries = entries]
        ELSE LET sent(s) ==
                   IF s.err # Nil
                   THEN [base EXCEPT !.err = SendFailed(s.err), !.entries = entries,
                                     !.called = TRUE, !.send = s]
                   ELSE [base EXCEPT !.sent = s.result.TotalSent, !.entries = entries,
                                     !.called = TRUE, !.send = s,
                                     !.data = UpdateState(m, cont, s.maxTimestamp)]
             IN  sent(Send(cl, payload, resps))

\* a scanProfile whose dry run advances the watermark to what it printed
scanProfile_DryAdvances(c, m, clock, dry, cl, rows, readOk, resps) ==
    LET cont == AllContainers[c]
        stored == GetLastTimestamp(m, cont.user, cont.browser, cont.profile)
        lastTimestamp == EffectiveTimestamp(stored, clock)
        entries == GetHistory(cont.browser, rows, lastTimestamp)
        principal == IF cont.user = "" THEN NewIPPrincipal(LocalIP)
                     ELSE NewUserPrincipal(cont.user)
        payload == [Principal |-> principal, Source |-> Source,
                    VisitedSites |-> entries]
        base == [sent |-> 0, err |-> Nil, data |-> m,
                 lastTimestamp |-> lastTimestamp, entries |-> << >>,
                 called |-> FALSE, send |-> NoSend]
    IN  IF ~readOk THEN [base EXCEPT !.err = HistoryError]
        ELSE IF Len(entries) = 0 THEN base
        ELSE IF dry THEN [base EXCEPT !.sent = Len(entries), !.entries = entries,
                                      !.data = UpdateState(m, cont,
                                                  MaxTimestampFrom(entries, 1, 0))]
        ELSE LET sent(s) ==
                   IF s.err # Nil
                   THEN [base EXCEPT !.err = SendFailed(s.err), !.entries = entries,
                                     !.called = TRUE, !.send = s]
                   ELSE [base EXCEPT !.sent = s.result.TotalSent, !.entries = entries,
                                     !.called = TRUE, !.send = s,
                                     !.data = UpdateState(m, cont, s.maxTimestamp)]
             IN  sent(Send(cl, payload, resps))

\* scanProfile(user, b, profile) -> (sent, err), with the new Manager.data.
\* readOk: GetHistory succeeds; resps: the server's answers per chunk.
\* called says whether Client.Send was called, send is what it returned.
scanProfile(c, m, clock, dry, cl, rows, readOk, resps) ==
    LET cont == AllContainers[c]
        stored == GetLastTimestamp(m, cont.user, cont.browser, cont.profile)
        lastTimestamp == EffectiveTimestamp(stored, clock)
        entries == GetHistory(cont.browser, rows, lastTimestamp)
        principal == IF cont.user = "" THEN NewIPPrincipal(LocalIP)
                     ELSE NewUserPrincipal(cont.user)
        payload == [Principal |-> principal, Source |-> Source,
                    VisitedSites |-> entries]
        base == [sent |-> 0, err |-> Nil, data |-> m,
                 lastTimestamp |-> lastTimestamp, entries |-> << >>,
                 called |-> FALSE, send |-> NoSend]
    IN  IF ~readOk THEN [base EXCEPT !.err = HistoryError]
        ELSE IF Len(entries) = 0 THEN base
        ELSE IF dry THEN [base EXCEPT !.sent = Len(entries), !.entries = entries]
        ELSE LET sent(s) ==
                   IF s.err # Nil
                   THEN [base EXCEPT !.err = SendFailed(s.err), !.entries = entries,
                                     !.called = TRUE, !.send = s]
                   ELSE [base EXCEPT !.sent = s.result.TotalSent, !.entries = entries,
                                     !.called = TRUE, !.send = s,
                                     !.data = UpdateState(m, cont, s.maxTimestamp)]
             IN  sent(Send(cl, payload, resps))

\* Manager.Load: the map read from the state file
Load(f) == f

EmptyScanResult == [UsersScanned |-> 0, ProfilesScanned |-> 0, EntriesSent |-> 0,
                    Errors |-> << >>, ExitCode |-> ExitSuccess]

NoCall == [c |-> 0, dry |-> FALSE, readOk |-> TRUE, stored |-> 0, lastTimestamp |-> 0,
           entries |-> << >>, called |-> FALSE, chunks |-> << >>, confirmed |-> << >>,
           res |-> EmptyResult, maxTimestamp |-> 0, sendErr |-> Nil,
           sent |-> 0, err |-> Nil, before |-> {}, prev |-> [full |-> FALSE, max |-> 0],
           requests |-> 0]

NoSendCall == [called |-> FALSE, cl |-> NewClient(1, FALSE), sites |-> << >>,
               resps |-> << >>, out |-> NoSend]

\* the workers calling the Manager, and the timestamps they set
Workers == 1 .. MaxWorkers
StateValues == 1 .. MaxValue

\* a worker's call of GetLastTimestamp or SetLastTimestamp in progress: pc is
\* its place in the method
NoOp == [pc |-> "idle", op |-> "none", tuple |-> << "alice", "chrome", "Default" >>,
         timestamp |-> 0]

\* the call that returned last: its arguments, what it returned (ret), and
\* the number of assignments made to its key when it was called (lo) and
\* when it read or wrote the map (at)
NoReturn == [op |-> "none", tuple |-> << "alice", "chrome", "Default" >>,
             timestamp |-> 0, ret |-> 0, lo |-> 0, at |-> 0]

\* history of the Manager: writes[k] the timestamps assigned to m.data[k] by
\* the SetLastTimestamp calls that have returned, in the order of the
\* assignments; tset[t] the timestamp last set for tuple t; lo[w] the length
\* of writes[k] when worker w made the call on key k it is in; returned the
\* call that returned last; calls counts the calls
NoHist ==
    [writes |-> [k \in Keys |-> << >>],
     tset |-> [t \in StateTuples |-> 0],
     lo |-> [w \in Workers |-> 0],
     returned |-> NoReturn,
     calls |-> 0]

\* the state file locations: the path of cfg.StateFile when one is
\* configured, getCentralStatePath() and getTempStatePath()
ExplicitPath == "/opt/scanner/state.json"
CentralPath == "/var/lib/hist_scanner/state.json"
TempPath == "/tmp/hist_scanner_state.json"
StatePaths == {ExplicitPath, CentralPath, TempPath}

\* what a path holds: no file, the JSON document of a map, a file of length
\* 0, or the beginning of the JSON document of a map
Absent == [kind |-> "absent", data |-> EmptyMap]
Doc(m) == [kind |-> "doc", data |-> m]
EmptyFile == [kind |-> "empty", data |-> EmptyMap]
Partial(m) == [kind |-> "partial", data |-> m]

NewManager(stateFile) == [stateFile |-> stateFile, data |-> EmptyMap]

\* the process of SpecPersist: step is its position (stopped, new, loaded,
\* write, writing, saved); cfgStateFile and canWriteCentral its configuration
\* and environment; n counts the processes.  About the latest Save: saving
\* (this process has chosen the path), path, prior (what the path held
\* before), new (the map being saved), interrupted (the process stopped
\* inside os.WriteFile); loadPath is the path the latest Load resolved.
NoProc ==
    [step |-> "stopped", cfgStateFile |-> "", canWriteCentral |-> FALSE, n |-> 0,
     sets |-> 0, saving |-> FALSE, path |-> "", prior |-> Absent, new |-> EmptyMap,
     interrupted |-> FALSE, loadPath |-> ""]

\* the files of a temporary copy that exist: the copy and its side files
NoTemp == [db |-> FALSE, wal |-> FALSE, shm |-> FALSE]

\* a read session: step is its position (idle, open, rows, ended); tempCopy
\* says that the handle's tempCopy field is set; tookTemp that Open went the
\* copy path; openErr that Open returned an error; n counts the sessions
NoSession == [step |-> "idle", tempCopy |-> FALSE, tookTemp |-> FALSE,
              openErr |-> FALSE, n |-> 0]

\* a Firefox profiles directory before discovery: manifest is the state of
\* profiles.ini (absent, unreadable, present), lines its lines, places the
\* profile paths that hold a places.sqlite; called, profiles, err and
\* fellBack describe the call of FindProfiles
NoFirefox == [manifest |-> "absent", lines |-> << >>, places |-> {},
              called |-> FALSE, profiles |-> << >>, err |-> FALSE,
              fellBack |-> FALSE]

\* a worker's call of a method of the Manager in SpecLock: op is the method
\* (save, get, entries, set, path), pc its place in it, path the local
\* variable of Save
IdleCaller == [pc |-> "idle", op |-> "none", path |-> ""]
NoCallers == [of |-> [w \in Workers |-> IdleCaller], calls |-> 0]

Init ==
    /\ store \in [Containers -> Stores("chrome", MaxRecords) \cup Stores("firefox", MaxRecordsFx)]
    /\ \A c \in Containers :
          store[c] \in Stores(AllContainers[c].browser,
                              IF AllContainers[c].browser = "firefox"
                              THEN MaxRecordsFx ELSE MaxRecords)
    /\ file = EmptyMap
    /\ now = StartNow
    /\ runs = 0
    /\ pc = "idle"
    /\ data = EmptyMap
    /\ dryRun = FALSE
    /\ \E compress \in BOOLEAN, kb \in ScanChunkSizesKB : client = NewClient(kb, compress)
    /\ work = << >>
    /\ idx = 1
    /\ successCount = 0
    /\ failureCount = 0
    /\ result = EmptyScanResult
    /\ last = NoCall
    /\ outcome = [c \in Containers |-> "Pending"]
    /\ delivered = [c \in Containers |-> {}]
    /\ due = [c \in Containers |-> {}]
    /\ prev = [c \in Containers |-> [full |-> FALSE, max |-> 0]]
    /\ enum = "none"
    /\ call = NoSendCall
    /\ mu = Unlocked
    /\ wk = [w \in Workers |-> NoOp]
    /\ hist = NoHist
    /\ mgr = NewManager("")
    /\ disk = [p \in StatePaths |-> Absent]
    /\ proc = NoProc
    /\ callers = NoCallers
    /\ orig = [wal |-> FALSE, shm |-> FALSE, version |-> 0]
    /\ temp = NoTemp
    /\ sess = NoSession
    /\ ff = NoFirefox

\* scanner.New(cfg, dryRun): a new process with a new Manager, loaded from
\* the state file.  The clock may have advanced since the last process.
New ==
    /\ pc = "idle"
    /\ runs < MaxRuns
    /\ \E dry \in BOOLEAN, t \in now .. MaxNow :
          /\ dryRun' = dry
          /\ now' = t
    /\ runs' = runs + 1
    /\ data' = Load(file)
    /\ pc' = "created"
    /\ work' = << >>
    /\ idx' = 1
    /\ successCount' = 0
    /\ failureCount' = 0
    /\ result' = EmptyScanResult
    /\ last' = NoCall
    /\ outcome' = [c \in Containers |-> "Pending"]
    /\ enum' = "none"
    /\ UNCHANGED << store, file, client, delivered, due, prev, call, stateVars, extraVars >>

\* the user lists GetAllUsers can return: the accounts of the machine, created
\* in the order of AllUsers
UserLists == { SubSeq(AllUsers, 1, n) : n \in 0 .. Len(AllUsers) }

\* Run, up to the profile loop: GetAllUsers fails, finds nobody, or returns
\* users, whose profiles FindProfiles returns.
RunEnumerate ==
    /\ pc = "created"
    /\ \E enumOk \in BOOLEAN, users \in UserLists :
          IF ~enumOk
          THEN /\ users = << >>
               /\ result' = [result EXCEPT !.Errors = Append(@, "user enumeration failed"),
                                           !.ExitCode = ExitCompleteFailure]
               /\ pc' = "idle"
               /\ enum' = "error"
               /\ UNCHANGED work
          ELSE IF Len(users) = 0
          THEN /\ result' = [result EXCEPT !.ExitCode = ExitCompleteFailure]
               /\ pc' = "idle"
               /\ enum' = "empty"
               /\ UNCHANGED work
          ELSE /\ work' = SelectSeq([i \in Containers |-> i],
                                     LAMBDA c : AllContainers[c].user \in Range(users))
               /\ result' = [result EXCEPT !.UsersScanned = Len(users)]
               /\ pc' = "scanning"
               /\ enum' = "users"
    /\ UNCHANGED << store, file, now, runs, data, dryRun, client, idx, successCount,
                    failureCount, last, outcome, delivered, due, prev, call, stateVars, extraVars >>

\* the number of HTTP requests in reqs, the requests issued chunk by chunk
RECURSIVE CountRequests(_, _)
CountRequests(reqs, i) ==
    IF i > Len(reqs) THEN 0 ELSE Len(reqs[i]) + CountRequests(reqs, i + 1)

\* the URLs of the sites in the chunks selected by keep
ChunkURLs(chunks, keep) ==
    UNION { {chunks[i].VisitedSites[j].URL : j \in 1 .. Len(chunks[i].VisitedSites)}
            : i \in {k \in 1 .. Len(chunks) : keep[k]} }

SiteURLs(sites) == {sites[i].URL : i \in 1 .. Len(sites)}

\* how a profile ended, from what was read and which chunks the server confirmed
OutcomeOf(r, dry, readOk) ==
    IF ~readOk THEN "Failed"
    ELSE IF Len(r.entries) = 0 THEN "Skipped"
    ELSE IF dry THEN "DryRun"
    ELSE IF \A i \in 1 .. Len(r.send.confirmed) : r.send.confirmed[i] THEN "Delivered"
    ELSE IF \A i \in 1 .. Len(r.send.confirmed) : ~r.send.confirmed[i] THEN "Failed"
    ELSE "PartiallyDelivered"

\* a Run for which any failure is a complete failure
ExitCodeOf_AnyFailure(success, failure) ==
    IF failure > 0 THEN ExitCompleteFailure ELSE ExitSuccess

\* the exit code Run computes from its counters
ExitCodeOf(success, failure) ==
    IF success = 0 /\ failure > 0 THEN ExitCompleteFailure
    ELSE IF failure > 0 THEN ExitPartialFailure
    ELSE ExitSuccess

\* Manager.Save: the state file after Save; ok is whether the write succeeded
Save(m, f, ok) == IF ok THEN m ELSE f

\* one iteration of Run's profile loop: scanProfile and the bookkeeping
ScanProfile ==
    /\ pc = "scanning"
    /\ idx <= Len(work)
    /\ LET c == work[idx]
           cont == AllContainers[c]
           stored == GetLastTimestamp(data, cont.user, cont.browser, cont.profile)
           wouldRead == GetHistory(cont.browser, store[c], EffectiveTimestamp(stored, now))
           payload == [Principal |-> NewUserPrincipal(cont.user), Source |-> Source,
                       VisitedSites |-> wouldRead]
           nChunks == IF dryRun THEN 0 ELSE Len(buildChunks(client, payload))
       IN  \E readOk \in BOOLEAN :
           \E resps \in [1 .. (IF readOk THEN nChunks ELSE 0) -> ResponsePairs(client, ScanResponses)] :
           \E r \in {scanProfile(c, data, now, dryRun, client, store[c], readOk, resps)} :
              LET errMsg == KeyOf(c) \o ": " \o r.err.kind
              IN  /\ data' = r.data
                  /\ result' = IF r.err # Nil
                               THEN [result EXCEPT !.ProfilesScanned = @ + 1,
                                                   !.Errors = Append(@, errMsg)]
                               ELSE [result EXCEPT !.ProfilesScanned = @ + 1,
                                                   !.EntriesSent = @ + r.sent]
                  /\ failureCount' = IF r.err # Nil THEN failureCount + 1 ELSE failureCount
                  /\ successCount' = IF r.err = Nil /\ r.sent > 0
                                     THEN successCount + 1 ELSE successCount
                  /\ last' = [c |-> c, dry |-> dryRun, readOk |-> readOk,
                              stored |-> stored, lastTimestamp |-> r.lastTimestamp,
                              entries |-> r.entries, called |-> r.called,
                              chunks |-> r.send.chunks, confirmed |-> r.send.confirmed,
                              res |-> r.send.result, maxTimestamp |-> r.send.maxTimestamp,
                              sendErr |-> r.send.err, sent |-> r.sent, err |-> r.err,
                              before |-> delivered[c], prev |-> prev[c],
                              requests |-> CountRequests(r.send.reqs, 1)]
                  /\ outcome' = [outcome EXCEPT ![c] = OutcomeOf(r, dryRun, readOk)]
                  /\ delivered' = [delivered EXCEPT
                                     ![c] = @ \cup ChunkURLs(r.send.chunks, r.send.confirmed)]
                  /\ due' = [due EXCEPT ![c] = @ \cup SiteURLs(wouldRead)]
                  /\ prev' = IF r.called
                             THEN [prev EXCEPT ![c] = [full |-> r.send.result.FailedCount = 0,
                                                       max |-> r.send.maxTimestamp]]
                             ELSE prev
    /\ idx' = idx + 1
    /\ UNCHANGED << store, file, now, runs, pc, dryRun, client, work, enum, call, stateVars, extraVars >>

\* the end of Run: Save (a failure is only logged) and the exit code
RunFinish ==
    /\ pc = "scanning"
    /\ idx > Len(work)
    /\ \E saveOk \in BOOLEAN : file' = Save(data, file, saveOk)
    /\ result' = [result EXCEPT !.ExitCode = ExitCodeOf(successCount, failureCount)]
    /\ pc' = "idle"
    /\ UNCHANGED << store, now, runs, data, dryRun, client, work, idx, successCount,
                    failureCount, last, outcome, delivered, due, prev, enum, call, stateVars, extraVars >>

Next == New \/ RunEnumerate \/ ScanProfile \/ RunFinish

Spec == Init /\ [][Next]_vars

TypeOK ==
    /\ pc \in {"idle", "created", "scanning"}
    /\ runs \in 0 .. MaxRuns
    /\ data \in [Keys -> Int]
    /\ file \in [Keys -> Int]

(***************************************************************************)
(* Properties of the scanner (Spec).                                       *)
(***************************************************************************)
SetMax(S) == CHOOSE x \in S : \A y \in S : y <= x
SetMin(S) == CHOOSE x \in S : \A y \in S : x <= y

ChunkTimestamps(chunk) ==
    {chunk.VisitedSites[j].Timestamp : j \in 1 .. Len(chunk.VisitedSites)}

\* the latest scanProfile call reached Client.Send
Sent == last.c # 0 /\ last.called

FailedChunks == {i \in 1 .. Len(last.chunks) : ~last.confirmed[i]}
ConfirmedChunks == {i \in 1 .. Len(last.chunks) : last.confirmed[i]}
ConfirmedTimestamps == UNION {ChunkTimestamps(last.chunks[i]) : i \in ConfirmedChunks}

\* the watermark stored for the profile of the latest scanProfile call
StoredNow == data[KeyOf(last.c)]

\* the row of URL u in profile c's store, as Unix microseconds
RowUs(c, u) ==
    LET i == CHOOSE i \in 1 .. Len(store[c]) : store[c][i].url = u
    IN  store[c][i].native - EpochUs(AllContainers[c].browser)

\* C1 (as claimed): after a scanProfile in which some chunk failed, the
\* stored watermark is strictly below the minimum timestamp of every
\* failed chunk.
C1_NoPrematureAdvance ==
    (Sent /\ FailedChunks # {}) =>
        \A i \in FailedChunks : StoredNow < SetMin(ChunkTimestamps(last.chunks[i]))

\* C2 (as claimed): no record is lost to a chunk failure.  Once a scan of a
\* profile has every chunk confirmed, every record that was above the
\* effective watermark at some scan of the profile, and is still inside the
\* look-back window, has been confirmed delivered.
C2_NoLossOnPartialFailure ==
    (Sent /\ last.res.FailedCount = 0) =>
        \A u \in due[last.c] \ delivered[last.c] :
            RowUs(last.c, u) <= LookBack(now) * 1000

\* C3 (as claimed): when the previous sending scan of the profile confirmed
\* every chunk and this scan reads with that scan's maxTimestamp, every
\* record sent now is strictly newer than that watermark and was not
\* delivered before.
C3_NoRedelivery ==
    (Sent /\ last.prev.full /\ last.stored = last.prev.max) =>
        \A i \in ConfirmedChunks :
            \A j \in 1 .. Len(last.chunks[i].VisitedSites) :
                /\ last.chunks[i].VisitedSites[j].Timestamp > last.stored
                /\ last.chunks[i].VisitedSites[j].URL \notin last.before

RunDone == pc = "idle" /\ enum = "users"

Processed == {c \in Containers : outcome[c] # "Pending"}

\* C5 (as claimed): exit status 0 only when every processed profile ended
\* Delivered or Skipped; a run with a PartiallyDelivered or Failed profile
\* and a successful one exits with 1.
C5_ExitStatusPartial ==
    (RunDone /\ ~dryRun) =>
        /\ result.ExitCode = ExitSuccess =>
              \A c \in Processed : outcome[c] \in {"Delivered", "Skipped"}
        /\ ( /\ \E c \in Processed : outcome[c] \in {"PartiallyDelivered", "Failed"}
             /\ \E c \in Processed : outcome[c] = "Delivered" )
              => result.ExitCode = ExitPartialFailure

\* a profile succeeded: the server confirmed some of its records (or, in a
\* dry run, they were printed); failed: its read or every chunk failed
Succeeded(c) == outcome[c] \in {"Delivered", "PartiallyDelivered", "DryRun"}
Failed(c) == outcome[c] = "Failed"

RunReturned == pc = "idle" /\ runs > 0

\* C6 (as claimed): exit status 2 if and only if no profile succeeded and
\* one failed, or user enumeration returned an error.
C6_ExitStatusComplete_Original ==
    RunReturned =>
        (result.ExitCode = ExitCompleteFailure
            <=> \/ (\A c \in Containers : ~Succeeded(c)) /\ (\E c \in Containers : Failed(c))
                \/ enum = "error")

\* C6 (amended): exit status 2 if and only if no profile succeeded and one
\* failed, or user enumeration returned an error or no user at all.
C6_ExitStatusComplete ==
    RunReturned =>
        (result.ExitCode = ExitCompleteFailure
            <=> \/ (\A c \in Containers : ~Succeeded(c)) /\ (\E c \in Containers : Failed(c))
                \/ enum \in {"error", "empty"})

\* a run of two profiles, one failed on read and one with every chunk
\* failed, returned 2
C6_Witness ==
    /\ RunReturned /\ enum = "users" /\ ~dryRun
    /\ result.ExitCode = ExitCompleteFailure
    /\ \A c \in Containers : Failed(c)
    /\ \E c \in Containers : last.c = c /\ last.called

\* C7: Send's timestamp is the maximum timestamp over the confirmed chunks
\* (0 if none); after a scanProfile that sent a batch the stored watermark
\* is that value if a chunk was confirmed and is unchanged otherwise.
C7_AdvanceToMaxConfirmed ==
    Sent =>
        /\ last.maxTimestamp = IF ConfirmedChunks = {} THEN 0
                               ELSE SetMax(ConfirmedTimestamps)
        /\ StoredNow = IF ConfirmedChunks = {} THEN last.stored
                       ELSE SetMax(ConfirmedTimestamps)

\* a partially delivered batch: the watermark moved to the confirmed maximum
C7_Witness ==
    /\ Sent
    /\ ConfirmedChunks # {} /\ FailedChunks # {}
    /\ StoredNow = SetMax(ConfirmedTimestamps)
    /\ StoredNow # last.stored

(***************************************************************************)
(* SpecSend: Client.Send on batches drawn from a bounded set.              *)
(***************************************************************************)
\* timestamps (Unix ms) of the sites of a batch
SendTimestamps == {4, 5}
\* cfg.ChunkSizeKB of the clients
SendChunkSizesKB == {1, 2}

\* batches of at most MaxSites sites, site i with URL i, in ascending time
Batches ==
    UNION { { s \in [1 .. k -> [URL : 1 .. MaxSites, Timestamp : SendTimestamps]] :
                /\ \A i \in 1 .. k : s[i].URL = i
                /\ \A i \in 1 .. k - 1 : s[i].Timestamp <= s[i + 1].Timestamp }
            : k \in 0 .. MaxSites }

InitSend ==
    /\ Init
    /\ store = [c \in Containers |-> << >>]
    /\ ~client.compress

\* one call of Client.Send: the client, the batch and the server's answers.
\* A Client keeps nothing from one call to the next, so one call is taken.
SendCall ==
    /\ ~call.called
    /\ \E compress \in BOOLEAN, kb \in SendChunkSizesKB, sites \in Batches :
          LET cl == NewClient(kb, compress)
              payload == [Principal |-> NewUserPrincipal("alice"), Source |-> Source,
                          VisitedSites |-> sites]
          IN  \E resps \in [1 .. Len(buildChunks(cl, payload)) -> ResponsePairs(cl, Responses)] :
                 call' = [called |-> TRUE, cl |-> cl, sites |-> sites, resps |-> resps,
                          out |-> Send(cl, payload, resps)]
    /\ UNCHANGED << scanVars, stateVars, extraVars >>

NextSend == SendCall

SpecSend == InitSend /\ [][NextSend]_vars

Is2xx(resp) == ~resp.transport /\ resp.status >= 200 /\ resp.status < 300
Is415(resp) == ~resp.transport /\ resp.status = 415

SentChunks == 1 .. Len(call.out.chunks)

\* the server answered some request of chunk i with a 2xx status
Accepted(i) ==
    \E j \in 1 .. Len(call.out.reqs[i]) : Is2xx(call.resps[i][j])

AcceptedChunks == {i \in SentChunks : Accepted(i)}
RejectedChunks == {i \in SentChunks : ~Accepted(i)}

\* number of sites in the chunks of I
RECURSIVE CountSites(_)
CountSites(I) ==
    IF I = {} THEN 0
    ELSE LET i == CHOOSE i \in I : TRUE
         IN  Len(call.out.chunks[i].VisitedSites) + CountSites(I \ {i})

\* C8 (as claimed): Send returns no error for transport and server failures,
\* also when every chunk fails.
C8_SendNeverErrs_Original ==
    call.called => call.out.err = Nil

\* C8 (amended): Send returns an error exactly when the batch has chunks and
\* the server accepted none; the error is then the last chunk's error and
\* the timestamp 0.  When the server accepted a chunk, the failures of the
\* others show only in LastError and FailedCount.
C8_SendErrorOnlyOnTotalFailure ==
    call.called =>
        /\ call.out.err # Nil <=> (SentChunks # {} /\ AcceptedChunks = {})
        /\ call.out.err # Nil =>
              /\ call.out.err = call.out.result.LastError
              /\ call.out.maxTimestamp = 0
        /\ (AcceptedChunks # {} /\ RejectedChunks # {}) =>
              /\ call.out.err = Nil
              /\ call.out.result.LastError # Nil
              /\ call.out.result.FailedCount = CountSites(RejectedChunks)

\* a batch with an accepted and a rejected chunk, and no error from Send
C8_Witness ==
    /\ call.called
    /\ AcceptedChunks # {} /\ RejectedChunks # {}
    /\ call.out.err = Nil
    /\ call.out.result.FailedCount > 0

\* C9: with compression on, a 415 answer to the gzip request of a chunk is
\* followed by exactly one more request, uncompressed and with the same
\* serialized payload; the chunk is delivered if and only if that request
\* gets a 2xx, and delivered chunks count in TotalSent and ChunksSent, not
\* in FailedCount.
C9_Fallback415 ==
    call.called =>
        /\ \A i \in SentChunks :
              (call.cl.compress /\ Is415(call.resps[i][1])) =>
                  LET reqs == call.out.reqs[i] IN
                  /\ Len(reqs) = 2
                  /\ reqs[1].ContentEncoding = "gzip" /\ reqs[1].body.gzip
                  /\ reqs[2].ContentEncoding = "" /\ ~reqs[2].body.gzip
                  /\ reqs[2].body.data = reqs[1].body.data
                  /\ reqs[2].body.data = Marshal(call.out.chunks[i])
                  /\ call.out.confirmed[i] <=> Is2xx(call.resps[i][2])
        /\ call.out.result.TotalSent = CountSites(AcceptedChunks)
        /\ call.out.result.ChunksSent = Cardinality(AcceptedChunks)
        /\ call.out.result.FailedCount = CountSites(RejectedChunks)

\* a chunk delivered by the uncompressed retry, and one whose retry failed
C9_Witness ==
    /\ call.called /\ call.cl.compress
    /\ \E i \in SentChunks :
          /\ Is415(call.resps[i][1]) /\ Is2xx(call.resps[i][2])
          /\ Len(call.out.reqs[i]) = 2
          /\ call.out.confirmed[i]
    /\ \E i \in SentChunks :
          /\ Is415(call.resps[i][1]) /\ ~Is2xx(call.resps[i][2])
          /\ ~call.out.confirmed[i]

\* C10: a chunk gets a second request only when compression is on and the
\* first request was answered with 415; any other failure of the first
\* request fails the chunk after one request, and without compression
\* every chunk gets exactly one request.
C10_OnlyRetryOn415 ==
    call.called =>
        \A i \in SentChunks :
            LET reqs == call.out.reqs[i]
                retry == call.cl.compress /\ Is415(call.resps[i][1])
            IN  /\ Len(reqs) \in {1, 2}
                /\ Len(reqs) = 2 <=> retry
                /\ reqs[1].ContentEncoding = IF call.cl.compress THEN "gzip" ELSE ""
                /\ (~Is2xx(call.resps[i][1]) /\ ~retry) =>
                      (Len(reqs) = 1 /\ ~call.out.confirmed[i])

\* compression on: a 500 and a transport error each cost one request
C10_Witness ==
    /\ call.called /\ call.cl.compress
    /\ \E i \in SentChunks :
          /\ ~call.resps[i][1].transport /\ call.resps[i][1].status = 500
          /\ Len(call.out.reqs[i]) = 1 /\ ~call.out.confirmed[i]
    /\ \E i \in SentChunks :
          /\ call.resps[i][1].transport
          /\ Len(call.out.reqs[i]) = 1 /\ ~call.out.confirmed[i]

\* the batch handed to Client.Send in the latest call
CallPayload ==
    [Principal |-> NewUserPrincipal("alice"), Source |-> Source, VisitedSites |-> call.sites]

\* C11: Send issues the requests of every chunk of the batch, chunk after
\* chunk in batch order, one request per chunk plus the uncompressed retry
\* after a 415, whatever happened to the chunks before it.
C11_EveryChunkAttempted ==
    (call.called /\ Len(call.sites) > 0) =>
        /\ call.out.chunks = buildChunks(call.cl, CallPayload)
        /\ Len(call.out.reqs) = Len(call.out.chunks)
        /\ \A i \in SentChunks :
              LET reqs == call.out.reqs[i] IN
              /\ Len(reqs) \in {1, 2}
              /\ \A j \in 1 .. Len(reqs) : reqs[j].body.data = Marshal(call.out.chunks[i])
              /\ Len(reqs) = 2 =>
                    /\ reqs[1].body.gzip /\ ~reqs[2].body.gzip
                    /\ Is415(call.resps[i][1])

\* a failed chunk, by a transport error or by a 500, before a chunk that
\* was attempted and confirmed
C11_Witness ==
    /\ call.called
    /\ \E i, j \in SentChunks :
          /\ i < j
          /\ ~call.out.confirmed[i] /\ ~Is415(call.resps[i][1])
          /\ Len(call.out.reqs[j]) >= 1 /\ call.out.confirmed[j]

\* the chunks buildChunks makes of the batch of the latest call
BuiltChunks == buildChunks(call.cl, CallPayload)

\* the sum of the per-record estimates of sites
RECURSIVE SumEntrySizes(_, _)
SumEntrySizes(sites, i) ==
    IF i > Len(sites) THEN 0
    ELSE URLLen(sites[i].URL) + EntryOverhead + SumEntrySizes(sites, i + 1)

\* the size estimate of a chunk: the sum of its per-record estimates, times
\* the compression ratio when compression is on
ChunkEstimate(c, chunk) ==
    IF c.compress
    THEN (SumEntrySizes(chunk.VisitedSites, 1) * 3) \div 10
    ELSE SumEntrySizes(chunk.VisitedSites, 1)

\* C12: every chunk of buildChunks with more than one record has a size
\* estimate within the ceiling; only a single-record chunk may exceed it.
C12_ChunkSizeCeiling ==
    call.called =>
        \A i \in 1 .. Len(BuiltChunks) :
            Len(BuiltChunks[i].VisitedSites) > 1 =>
                ChunkEstimate(call.cl, BuiltChunks[i]) <= call.cl.maxChunkSize

\* a batch split into a chunk of several records and a chunk of one record
\* that is over the ceiling by itself
C12_Witness ==
    /\ call.called
    /\ \E i \in 1 .. Len(BuiltChunks) : Len(BuiltChunks[i].VisitedSites) > 1
    /\ \E i \in 1 .. Len(BuiltChunks) :
          /\ Len(BuiltChunks[i].VisitedSites) = 1
          /\ ChunkEstimate(call.cl, BuiltChunks[i]) > call.cl.maxChunkSize

\* the records of chunks i, i + 1, ... one after the other
RECURSIVE ConcatSites(_, _)
ConcatSites(chunks, i) ==
    IF i > Len(chunks) THEN << >>
    ELSE chunks[i].VisitedSites \o ConcatSites(chunks, i + 1)

\* C13: the chunks of buildChunks, one after the other, are the batch's
\* records in their order; no chunk is empty; every chunk carries the
\* batch's principal and source.
C13_ChunksPartitionBatch ==
    call.called =>
        /\ ConcatSites(BuiltChunks, 1) = call.sites
        /\ \A i \in 1 .. Len(BuiltChunks) :
              /\ Len(BuiltChunks[i].VisitedSites) > 0
              /\ BuiltChunks[i].Principal = CallPayload.Principal
              /\ BuiltChunks[i].Source = CallPayload.Source

\* a batch of several records split into more than one chunk, the last
\* chunk being the one still open when the batch ended
C13_Witness ==
    /\ call.called
    /\ Len(call.sites) >= 3
    /\ Len(BuiltChunks) >= 2
    /\ Len(BuiltChunks[Len(BuiltChunks)].VisitedSites) >= 2

\* the chunks of the latest call that Send reported confirmed, and failed
CallConfirmed == {i \in SentChunks : call.out.confirmed[i]}
CallFailed == {i \in SentChunks : ~call.out.confirmed[i]}

\* C14: FailedCount is the number of records in failed chunks, TotalSent
\* the number of records in confirmed chunks, ChunksSent the number of
\* confirmed chunks, and TotalSent + FailedCount the size of the batch;
\* a chunk is confirmed when the server accepted one of its requests.
C14_DeliveryAccounting ==
    call.called =>
        /\ \A i \in SentChunks : call.out.confirmed[i] <=> Accepted(i)
        /\ call.out.result.FailedCount = CountSites(CallFailed)
        /\ call.out.result.TotalSent = CountSites(CallConfirmed)
        /\ call.out.result.ChunksSent = Cardinality(CallConfirmed)
        /\ call.out.result.TotalSent + call.out.result.FailedCount = Len(call.sites)

\* a failed chunk of several records next to a confirmed chunk
C14_Witness ==
    /\ call.called
    /\ CallConfirmed # {}
    /\ \E i \in CallFailed : Len(call.out.chunks[i].VisitedSites) >= 2
    /\ call.out.result.FailedCount >= 2

(***************************************************************************)
(* Properties of scanProfile and Run for single containers (Spec).         *)
(***************************************************************************)
\* the step is one iteration of Run's profile loop
ProfileStep == pc = "scanning" /\ idx' = idx + 1

\* C15: when GetHistory succeeds with zero records, no request is issued,
\* no watermark changes (in memory or in the file), and the container
\* adds neither to the successes nor to the failures of the run.
C15_SkippedNoEffect ==
    [][(ProfileStep /\ last'.readOk /\ Len(last'.entries) = 0) =>
          /\ ~last'.called /\ last'.requests = 0
          /\ data' = data /\ file' = file
          /\ successCount' = successCount
          /\ failureCount' = failureCount
          /\ result'.Errors = result.Errors
          /\ outcome'[last'.c] = "Skipped"]_vars

\* a profile with rows, none of them newer than the timestamp read with,
\* skipped by a run that sends, after a profile that was delivered
C15_Witness ==
    /\ last.c # 0 /\ last.readOk /\ ~last.dry
    /\ Len(last.entries) = 0
    /\ Len(store[last.c]) > 0
    /\ outcome[last.c] = "Skipped"
    /\ successCount > 0

\* the message Run appends to ScanResult.Errors for a failed read of container c
ReadErrorMessage(c) == KeyOf(c) \o ": " \o HistoryError.kind

\* a failed read in one iteration of the profile loop: no request, no
\* watermark change, the error appended, one more failure, the loop goes on
ReadErrorStep ==
    [][(ProfileStep /\ ~last'.readOk) =>
          /\ ~last'.called /\ last'.requests = 0
          /\ data' = data /\ file' = file
          /\ result'.Errors = Append(result.Errors, ReadErrorMessage(last'.c))
          /\ failureCount' = failureCount + 1
          /\ successCount' = successCount
          /\ pc' = "scanning"]_vars

\* a Run that got users has scanned every container of its users when it
\* returns, whatever failed on the way
RunProcessesAll ==
    (RunDone /\ enum = "users") =>
        /\ result.ProfilesScanned = Len(work)
        /\ \A i \in 1 .. Len(work) : outcome[work[i]] # "Pending"

\* C16: when GetHistory returns an error for a container, scanProfile issues
\* no request and changes no watermark, the error is appended to
\* ScanResult.Errors, and Run still processes every remaining container of
\* every user of the run.
C16_FailedContainerIsolated == ReadErrorStep /\ []RunProcessesAll

\* a run whose first container failed to read and whose second container
\* was delivered
C16_Witness ==
    /\ RunDone /\ enum = "users"
    /\ Len(work) = 2
    /\ outcome[work[1]] = "Failed" /\ Len(result.Errors) = 1
    /\ result.Errors[1] = ReadErrorMessage(work[1])
    /\ outcome[work[2]] = "Delivered"
    /\ data[KeyOf(work[2])] > 0

(***************************************************************************)
(* Properties of the adapters (Spec).                                      *)
(***************************************************************************)
\* the latest scanProfile call read its profile's history
ReadDone == last.c # 0 /\ last.readOk

\* the native value of the row of URL u in profile c's store
RowNative(c, u) ==
    LET i == CHOOSE i \in 1 .. Len(store[c]) : store[c][i].url = u
    IN  store[c][i].native

\* the conversion of the adapter of profile c from Unix ms to its native unit
FromUnixMs(c, ms) ==
    IF AllContainers[c].browser = "firefox"
    THEN FirefoxFromUnixMs(ms) ELSE ChromiumFromUnixMs(ms)

\* C17: every record GetHistory returns for a watermark W > 0 has a
\* timestamp strictly greater than W.
C17_StrictWatermarkFilter ==
    (ReadDone /\ last.lastTimestamp > 0) =>
        \A i \in 1 .. Len(last.entries) :
            last.entries[i].Timestamp > last.lastTimestamp

\* C18: the timestamp GetHistory returns for a row, converted back to the
\* native unit the way GetHistory converts the watermark, is the row's
\* native value.
C18_TimestampRoundTrip ==
    ReadDone =>
        \A i \in 1 .. Len(last.entries) :
            FromUnixMs(last.c, last.entries[i].Timestamp)
                = RowNative(last.c, last.entries[i].URL)

(***************************************************************************)
(* state.Manager under concurrent callers (SpecState): several workers     *)
(* call GetLastTimestamp and SetLastTimestamp of one Manager.  Each call   *)
(* takes the lock, then touches m.data and releases the lock as it         *)
(* returns; the steps of different workers interleave.                     *)
(***************************************************************************)
InitState ==
    /\ Init
    /\ store = [c \in Containers |-> << >>]
    /\ client = NewClient(1, FALSE)

KeyOfCall(w) == TupleKey(wk[w].tuple)

\* an assignment to m.data is in progress
MapWriters == {w \in Workers : wk[w].pc = "writing"}

\* what a read of m.data[k] yields: the stored value, or, when it races with
\* an assignment to the map, any value at all
MapRead(m, k) ==
    IF MapWriters = {} THEN {m[k]} ELSE {0} \cup StateValues

\* a worker calls GetLastTimestamp(username, browserName, profileName)
CallGet(w) ==
    /\ wk[w].pc = "idle"
    /\ hist.calls < MaxCalls
    /\ \E t \in StateTuples :
          /\ wk' = [wk EXCEPT ![w] = [pc |-> "lock", op |-> "get", tuple |-> t,
                                      timestamp |-> 0]]
          /\ hist' = [hist EXCEPT !.calls = @ + 1,
                                  !.lo[w] = Len(hist.writes[TupleKey(t)])]
    /\ UNCHANGED << scanVars, call, mu, extraVars >>

\* a worker calls SetLastTimestamp(username, browserName, profileName, timestamp)
CallSet(w) ==
    /\ wk[w].pc = "idle"
    /\ hist.calls < MaxCalls
    /\ \E t \in StateTuples, v \in StateValues :
          /\ wk' = [wk EXCEPT ![w] = [pc |-> "lock", op |-> "set", tuple |-> t,
                                      timestamp |-> v]]
          /\ hist' = [hist EXCEPT !.calls = @ + 1,
                                  !.lo[w] = Len(hist.writes[TupleKey(t)])]
    /\ UNCHANGED << scanVars, call, mu, extraVars >>

\* m.mu.RLock() of GetLastTimestamp
GetRLock(w) ==
    /\ wk[w].pc = "lock"
    /\ wk[w].op = "get"
    /\ CanRLock(mu)
    /\ mu' = RLock(mu, w)
    /\ wk' = [wk EXCEPT ![w].pc = "reading"]
    /\ UNCHANGED << scanVars, call, hist, extraVars >>

\* return m.data[key], with the deferred m.mu.RUnlock()
GetReturn(w) ==
    /\ wk[w].pc = "reading"
    /\ \E v \in MapRead(data, KeyOfCall(w)) :
          hist' = [hist EXCEPT !.lo[w] = 0,
                               !.returned = [op |-> "get", tuple |-> wk[w].tuple,
                                             timestamp |-> 0, ret |-> v,
                                             lo |-> hist.lo[w],
                                             at |-> Len(hist.writes[KeyOfCall(w)])]]
    /\ mu' = RUnlock(mu, w)
    /\ wk' = [wk EXCEPT ![w] = NoOp]
    /\ UNCHANGED << scanVars, call, extraVars >>

\* m.mu.Lock() of SetLastTimestamp; the assignment m.data[key] = timestamp
\* begins: the map is being modified
SetLock(w) ==
    /\ wk[w].pc = "lock"
    /\ wk[w].op = "set"
    /\ CanLock(mu)
    /\ mu' = Lock(mu, w)
    /\ wk' = [wk EXCEPT ![w].pc = "writing"]
    /\ UNCHANGED << scanVars, call, hist, extraVars >>

\* m.data[key] = timestamp is complete; the deferred m.mu.Unlock() runs and
\* SetLastTimestamp returns
SetReturn(w) ==
    /\ wk[w].pc = "writing"
    /\ LET t == wk[w].tuple
           k == KeyOfCall(w)
       IN  /\ data' = SetLastTimestamp(data, t[1], t[2], t[3], wk[w].timestamp)
           /\ hist' = [hist EXCEPT !.writes[k] = Append(@, wk[w].timestamp),
                                   !.tset[t] = wk[w].timestamp,
                                   !.lo[w] = 0,
                                   !.returned = [op |-> "set", tuple |-> t,
                                                 timestamp |-> wk[w].timestamp,
                                                 ret |-> 0, lo |-> hist.lo[w],
                                                 at |-> Len(hist.writes[k]) + 1]]
    /\ mu' = Unlock(mu)
    /\ wk' = [wk EXCEPT ![w] = NoOp]
    /\ UNCHANGED << store, file, now, runs, pc, dryRun, client, work, idx,
                    successCount, failureCount, result, last, outcome, delivered,
                    due, prev, enum, call, extraVars >>

NextState ==
    \E w \in Workers :
       \/ CallGet(w)
       \/ CallSet(w)
       \/ GetRLock(w)
       \/ GetReturn(w)
       \/ SetLock(w)
       \/ SetReturn(w)

SpecState == InitState /\ [][NextState]_vars

(***************************************************************************)
(* Properties of the Manager (SpecState).                                  *)
(***************************************************************************)
\* the tuples for which a timestamp has been set
SetTuples == {t \in StateTuples : hist.tset[t] # 0}

\* C19: two distinct (username, browserName, profileName) tuples that have
\* been given a watermark never share a key string, and the watermark
\* GetLastTimestamp reads for a tuple is the timestamp last set for that
\* tuple (0 if none was set): no call for another tuple has overwritten it.
C19_KeyUniqueness ==
    /\ \A t1, t2 \in SetTuples : t1 # t2 => TupleKey(t1) # TupleKey(t2)
    /\ \A t \in StateTuples :
          GetLastTimestamp(data, t[1], t[2], t[3]) = hist.tset[t]

\* the value of the i-th assignment to m.data[k]; 0 before the first
WriteAt(k, i) == IF i = 0 THEN 0 ELSE hist.writes[k][i]

\* the call that returned last, and its key
Returned == hist.returned
ReturnedKey == TupleKey(Returned.tuple)

\* C20: under every interleaving of the workers' calls, a GetLastTimestamp
\* returns the value of one set on its key (0 if there was none) that is not
\* older than the latest set completed before the get was called, and that
\* was the latest one when the get read the map; no set is lost: a set that
\* returned is in the order of assignments of its key, and m.data[k] is the
\* value of the last assignment made for k, which only sets on k make.
C20_Linearizable ==
    /\ Returned.op = "get" =>
          /\ Returned.at >= Returned.lo
          /\ Returned.ret = WriteAt(ReturnedKey, Returned.at)
    /\ Returned.op = "set" =>
          /\ Returned.at > Returned.lo
          /\ WriteAt(ReturnedKey, Returned.at) = Returned.timestamp
    /\ \A k \in Keys :
          data[k] = WriteAt(k, Len(hist.writes[k]))

\* a get called before any set on its key had returned read the map after the
\* first set on that key, made meanwhile by another worker, and returned the
\* value of that set
C20_Witness ==
    /\ Returned.op = "get"
    /\ Returned.lo = 0
    /\ Returned.at = 1
    /\ Returned.ret = WriteAt(ReturnedKey, 1)
    /\ Returned.ret # 0

(***************************************************************************)
(* The seal rule of buildChunks (SpecSend).                                *)
(***************************************************************************)
\* the estimate of one record, and the running estimate of the first n
\* records of a chunk
EntryEstimate(site) == URLLen(site.URL) + EntryOverhead
RunningEstimate(sites, n) == SumEntrySizes(SubSeq(sites, 1, n), 1)

\* the projected size of a chunk of running estimate r with a record of
\* estimate e added: the ratio applied to r alone, and to the sum r + e
ProjectedRunning(c, r, e) ==
    (IF c.compress THEN (r * 3) \div 10 ELSE r) + e
ProjectedSum(c, r, e) ==
    IF c.compress THEN ((r + e) * 3) \div 10 ELSE r + e

\* the chunks of the latest call were sealed exactly where Projected says:
\* a record that stayed in its chunk was within the ceiling, the record that
\* opened a later chunk was over it, and the first record was never sealed
SealedBy(Projected(_, _, _)) ==
    call.called =>
        \A i \in 1 .. Len(BuiltChunks) :
            LET sites == BuiltChunks[i].VisitedSites
            IN  /\ Len(sites) > 0
                /\ \A n \in 2 .. Len(sites) :
                      Projected(call.cl, RunningEstimate(sites, n - 1),
                                EntryEstimate(sites[n])) <= call.cl.maxChunkSize
                /\ i > 1 =>
                      LET before == BuiltChunks[i - 1].VisitedSites
                      IN  Projected(call.cl, RunningEstimate(before, Len(before)),
                                    EntryEstimate(sites[1])) > call.cl.maxChunkSize

\* C26: buildChunks seals the current chunk before adding a record if and
\* only if the chunk is non-empty and the projected estimate exceeds the
\* ceiling, the projected estimate being the running uncompressed estimate,
\* times the compression ratio when compression is on, plus the record's
\* own estimate, to which the ratio is not applied.
C26_SealRule == SealedBy(ProjectedRunning)

\* C26 as stated: the ratio is applied to the sum of the running estimate
\* and the record's estimate.
C26_SealRule_Original == SealedBy(ProjectedSum)

\* with compression on, a chunk was sealed before a record although the
\* ratio applied to the whole sum would have kept the record in the chunk
C26_Witness ==
    /\ call.called
    /\ call.cl.compress
    /\ \E i \in 2 .. Len(BuiltChunks) :
          LET before == BuiltChunks[i - 1].VisitedSites
              r == RunningEstimate(before, Len(before))
              e == EntryEstimate(BuiltChunks[i].VisitedSites[1])
          IN  /\ ProjectedRunning(call.cl, r, e) > call.cl.maxChunkSize
              /\ ProjectedSum(call.cl, r, e) <= call.cl.maxChunkSize

(***************************************************************************)
(* The look-back substitution of scanProfile (Spec).                       *)
(***************************************************************************)
\* the key of the container the step scans
ScannedKey == KeyOf(work[idx])

\* C27: scanProfile reads with the stored watermark when it is not 0 and
\* with the clock minus the look-back days when it is 0; with a clock later
\* than the look-back days after the epoch the timestamp passed to
\* GetHistory is never 0; the substitution writes nothing: a watermark that
\* was 0 is still 0 after the step unless a chunk was confirmed.
C27_LookBackSubstitution ==
    [][ProfileStep =>
          /\ last'.stored = data[ScannedKey]
          /\ last'.stored # 0 => last'.lastTimestamp = last'.stored
          /\ last'.stored = 0 => last'.lastTimestamp = now - InitialDays * DayMs
          /\ now > InitialDays * DayMs => last'.lastTimestamp # 0
          /\ (last'.readOk /\ Len(last'.entries) > 0) =>
                last'.entries = GetHistory(AllContainers[work[idx]].browser,
                                           store[work[idx]], last'.lastTimestamp)
          /\ (last'.stored = 0 /\ \A i \in 1 .. Len(last'.confirmed) : ~last'.confirmed[i]) =>
                /\ data'[ScannedKey] = 0
                /\ file' = file]_vars

\* a container never synced was read from the look-back horizon, its batch
\* was sent and no chunk was confirmed: its watermark is still 0
C27_Witness ==
    /\ last.c # 0
    /\ last.stored = 0
    /\ last.lastTimestamp = LookBack(now)
    /\ last.lastTimestamp # 0
    /\ last.called
    /\ Len(last.entries) > 0
    /\ \A i \in 1 .. Len(last.confirmed) : ~last.confirmed[i]
    /\ data[KeyOf(last.c)] = 0

Exists(d, path) == path # "" /\ d[path].kind # "absent"

resolveStatePath(m, d) ==
    IF m.stateFile # "" /\ Exists(d, m.stateFile) THEN m.stateFile
    ELSE IF CentralPath # "" /\ Exists(d, CentralPath) THEN CentralPath
    ELSE IF Exists(d, TempPath) THEN TempPath
    ELSE ""

findWritablePath(m, canWriteCentral) ==
    IF m.stateFile # "" THEN m.stateFile
    ELSE IF CentralPath # "" /\ canWriteCentral THEN CentralPath
    ELSE TempPath

\* json.Unmarshal(data, &m.data): the keys of the document are stored into
\* the map
Unmarshal(doc, into) == [k \in Keys |-> IF doc[k] # 0 THEN doc[k] ELSE into[k]]

\* Manager.Load: the Manager afterwards; readOk is whether os.ReadFile
\* succeeds.  A document that does not parse leaves the Manager as it was.
LoadFrom(m, d, readOk) ==
    LET path == resolveStatePath(m, d)
    IN  IF path = "" THEN m
        ELSE IF ~readOk THEN m
        ELSE IF d[path].kind # "doc" THEN m
        ELSE [stateFile |-> path, data |-> Unmarshal(d[path].data, m.data)]

\* the path Save writes to, and the stateFile it leaves in the Manager
SavePath(m, canWriteCentral) ==
    IF m.stateFile = "" THEN findWritablePath(m, canWriteCentral) ELSE m.stateFile

\* a process starts: state.NewManager(cfg.StateFile)
StartProcess ==
    /\ proc.step = "stopped"
    /\ proc.n < MaxRuns
    /\ \E path \in {"", ExplicitPath}, canWrite \in BOOLEAN :
          /\ mgr' = NewManager(path)
          /\ proc' = [proc EXCEPT !.step = "new", !.cfgStateFile = path,
                                  !.canWriteCentral = canWrite, !.n = @ + 1,
                                  !.sets = 0, !.saving = FALSE]
    /\ UNCHANGED << scanVars, call, stateVars, disk, callers, dbVars, ff >>

\* stateMgr.Load()
ManagerLoad ==
    /\ proc.step = "new"
    /\ \E readOk \in BOOLEAN : mgr' = LoadFrom(mgr, disk, readOk)
    /\ proc' = [proc EXCEPT !.step = "loaded", !.loadPath = resolveStatePath(mgr, disk)]
    /\ UNCHANGED << scanVars, call, stateVars, disk, callers, dbVars, ff >>

\* s.state.SetLastTimestamp(...)
ManagerSet ==
    /\ proc.step = "loaded"
    /\ proc.sets < MaxSets
    /\ \E t \in StateTuples, v \in StateValues :
          mgr' = [mgr EXCEPT !.data = SetLastTimestamp(@, t[1], t[2], t[3], v)]
    /\ proc' = [proc EXCEPT !.sets = @ + 1]
    /\ UNCHANGED << scanVars, call, stateVars, disk, callers, dbVars, ff >>

\* os.MkdirAll(dir) can succeed: the directory of the system location can
\* be made and written only when canWrite says so
CanMkdir(path, canWriteCentral) ==
    IF path = CentralPath /\ ~canWriteCentral THEN {FALSE} ELSE BOOLEAN

\* Manager.Save up to os.WriteFile: the path is chosen and stored in
\* m.stateFile, the document is marshalled, the directory is made
SaveResolve ==
    /\ proc.step = "loaded"
    /\ LET path == SavePath(mgr, proc.canWriteCentral)
       IN  /\ mgr' = [mgr EXCEPT !.stateFile = path]
           /\ \E mkdirOk \in CanMkdir(path, proc.canWriteCentral) :
                 proc' = [proc EXCEPT !.step = IF mkdirOk THEN "write" ELSE "saved",
                                      !.saving = TRUE, !.path = path,
                                      !.prior = disk[path], !.new = mgr.data,
                                      !.interrupted = FALSE]
    /\ UNCHANGED << scanVars, call, stateVars, disk, callers, dbVars, ff >>

\* os.WriteFile opens the file: O_WRONLY|O_CREATE|O_TRUNC leaves it empty
SaveTruncate ==
    /\ proc.step = "write"
    /\ \E openOk \in BOOLEAN :
          IF openOk
          THEN /\ disk' = [disk EXCEPT ![proc.path] = EmptyFile]
               /\ proc' = [proc EXCEPT !.step = "writing"]
          ELSE /\ disk' = disk
               /\ proc' = [proc EXCEPT !.step = "saved"]
    /\ UNCHANGED << scanVars, call, stateVars, mgr, callers, dbVars, ff >>

\* os.WriteFile has written the beginning of the document
SaveWritePart ==
    /\ proc.step = "writing"
    /\ disk[proc.path] = EmptyFile
    /\ disk' = [disk EXCEPT ![proc.path] = Partial(mgr.data)]
    /\ UNCHANGED << scanVars, call, stateVars, mgr, proc, callers, dbVars, ff >>

\* os.WriteFile returns: the document is complete, or the write failed and
\* the file is left as far as it got
SaveWriteEnd ==
    /\ proc.step = "writing"
    /\ \E writeOk \in BOOLEAN :
          disk' = IF writeOk THEN [disk EXCEPT ![proc.path] = Doc(mgr.data)] ELSE disk
    /\ proc' = [proc EXCEPT !.step = "saved"]
    /\ UNCHANGED << scanVars, call, stateVars, mgr, callers, dbVars, ff >>

\* the process stops: it returns, or it is killed where it stands
Stop ==
    /\ proc.step # "stopped"
    /\ proc' = [proc EXCEPT !.step = "stopped",
                            !.interrupted = (proc.step = "writing")]
    /\ UNCHANGED << scanVars, call, stateVars, mgr, disk, callers, dbVars, ff >>

NextPersist ==
    \/ StartProcess
    \/ ManagerLoad
    \/ ManagerSet
    \/ SaveResolve
    \/ SaveTruncate
    \/ SaveWritePart
    \/ SaveWriteEnd
    \/ Stop

InitPersist ==
    /\ Init
    /\ store = [c \in Containers |-> << >>]
    /\ client = NewClient(1, FALSE)

SpecPersist == InitPersist /\ [][NextPersist]_vars

(***************************************************************************)
(* Properties of Save and Load (SpecPersist).                              *)
(***************************************************************************)
\* the latest Save was interrupted and the process has stopped
Interrupted == proc.step = "stopped" /\ proc.interrupted

\* C21: when a process stops inside the write of Save, the state file holds
\* what it held before the Save or the complete document of the map being
\* saved, never an empty or truncated one; the next Load of that file gives
\* the Manager the prior map or the new one.
C21_SaveNotCorrupting ==
    /\ Interrupted =>
          /\ disk[proc.path] \in {proc.prior, Doc(proc.new)}
          /\ disk[proc.path].kind \notin {"empty", "partial"}
    /\ (proc.step = "loaded" /\ proc.interrupted /\ proc.loadPath = proc.path
          /\ proc.sets = 0 /\ mgr.stateFile = proc.path) =>
          mgr.data \in {proc.prior.data, proc.new}

\* the path Save is to write to: the configured one, else the system
\* location when it is writable, else the temporary directory
ExpectedPath ==
    IF proc.cfgStateFile # "" THEN proc.cfgStateFile
    ELSE IF proc.canWriteCentral THEN CentralPath
    ELSE TempPath

\* C25: Save writes to the configured path when one is configured, whatever
\* Load found and read; with none configured it writes to the system
\* location when that is writable and to the temporary location otherwise.
C25_SavePathResolution ==
    (proc.saving /\ proc.step # "stopped") => proc.path = ExpectedPath

(***************************************************************************)
(* The lock discipline of state.Manager (SpecLock): workers call Save,     *)
(* GetLastTimestamp, GetAllEntries, SetLastTimestamp and GetStateFilePath  *)
(* of one Manager created without a state file path.  A step is a lock     *)
(* operation or one access to a field of the Manager.                      *)
(***************************************************************************)
Caller(w) == callers.of[w]

\* worker w calls method op
Invoke(w, op) ==
    /\ Caller(w).pc = "idle"
    /\ callers.calls < MaxCalls
    /\ callers' = [callers EXCEPT !.of[w] = [pc |-> "lock", op |-> op, path |-> ""],
                                  !.calls = @ + 1]

\* worker w moves to pc
Goto(w, pc2) == callers' = [callers EXCEPT !.of[w].pc = pc2]
Return(w) == callers' = [callers EXCEPT !.of[w] = IdleCaller]

lockFrame == << scanVars, call, wk, hist, proc, dbVars, ff >>

SaveCall(w) ==
    /\ Invoke(w, "save")
    /\ UNCHANGED << lockFrame, mu, mgr, disk >>

\* m.mu.RLock() of Save
SaveRLock(w) ==
    /\ Caller(w).op = "save" /\ Caller(w).pc = "lock"
    /\ CanRLock(mu)
    /\ mu' = RLock(mu, w)
    /\ Goto(w, "readPath")
    /\ UNCHANGED << lockFrame, mgr, disk >>

\* path := m.stateFile, and findWritablePath() when it is empty
SaveReadPath(w) ==
    /\ Caller(w).op = "save" /\ Caller(w).pc = "readPath"
    /\ IF mgr.stateFile = ""
       THEN \E canWrite \in BOOLEAN :
               callers' = [callers EXCEPT
                              !.of[w].path = findWritablePath(mgr, canWrite),
                              !.of[w].pc = "assignPath"]
       ELSE callers' = [callers EXCEPT !.of[w].path = mgr.stateFile,
                                       !.of[w].pc = "writeFile"]
    /\ UNCHANGED << lockFrame, mu, mgr, disk >>

\* m.stateFile = path
SaveAssignPath(w) ==
    /\ Caller(w).op = "save" /\ Caller(w).pc = "assignPath"
    /\ mgr' = [mgr EXCEPT !.stateFile = Caller(w).path]
    /\ Goto(w, "writeFile")
    /\ UNCHANGED << lockFrame, mu, disk >>

\* json.MarshalIndent(m.data), os.WriteFile, the deferred RUnlock
SaveWriteFile(w) ==
    /\ Caller(w).op = "save" /\ Caller(w).pc = "writeFile"
    /\ disk' = [disk EXCEPT ![Caller(w).path] = Doc(mgr.data)]
    /\ mu' = RUnlock(mu, w)
    /\ Return(w)
    /\ UNCHANGED << lockFrame, mgr >>

\* GetLastTimestamp or GetAllEntries is called
ReadCall(w) ==
    /\ \E op \in {"get", "entries"} : Invoke(w, op)
    /\ UNCHANGED << lockFrame, mu, mgr, disk >>

\* m.mu.RLock() of GetLastTimestamp and GetAllEntries
ReadRLock(w) ==
    /\ Caller(w).op \in {"get", "entries"} /\ Caller(w).pc = "lock"
    /\ CanRLock(mu)
    /\ mu' = RLock(mu, w)
    /\ Goto(w, "readData")
    /\ UNCHANGED << lockFrame, mgr, disk >>

\* m.data is read, the deferred RUnlock
ReadReturn(w) ==
    /\ Caller(w).op \in {"get", "entries"} /\ Caller(w).pc = "readData"
    /\ mu' = RUnlock(mu, w)
    /\ Return(w)
    /\ UNCHANGED << lockFrame, mgr, disk >>

WriteCall(w) ==
    /\ Invoke(w, "set")
    /\ UNCHANGED << lockFrame, mu, mgr, disk >>

\* m.mu.Lock() of SetLastTimestamp
WriteLock(w) ==
    /\ Caller(w).op = "set" /\ Caller(w).pc = "lock"
    /\ CanLock(mu)
    /\ mu' = Lock(mu, w)
    /\ Goto(w, "writeData")
    /\ UNCHANGED << lockFrame, mgr, disk >>

\* m.data[key] = timestamp, the deferred Unlock
WriteReturn(w) ==
    /\ Caller(w).op = "set" /\ Caller(w).pc = "writeData"
    /\ \E t \in StateTuples, v \in StateValues :
          mgr' = [mgr EXCEPT !.data = SetLastTimestamp(@, t[1], t[2], t[3], v)]
    /\ mu' = Unlock(mu)
    /\ Return(w)
    /\ UNCHANGED << lockFrame, disk >>

\* GetStateFilePath is called: it takes no lock
PathCall(w) ==
    /\ Caller(w).pc = "idle"
    /\ callers.calls < MaxCalls
    /\ callers' = [callers EXCEPT !.of[w] = [pc |-> "readStateFile", op |-> "path",
                                             path |-> ""],
                                  !.calls = @ + 1]
    /\ UNCHANGED << lockFrame, mu, mgr, disk >>

\* return m.stateFile
PathReturn(w) ==
    /\ Caller(w).op = "path" /\ Caller(w).pc = "readStateFile"
    /\ Return(w)
    /\ UNCHANGED << lockFrame, mu, mgr, disk >>

NextLock ==
    \E w \in Workers :
       \/ SaveCall(w)
       \/ SaveRLock(w)
       \/ SaveReadPath(w)
       \/ SaveAssignPath(w)
       \/ SaveWriteFile(w)
       \/ ReadCall(w)
       \/ ReadRLock(w)
       \/ ReadReturn(w)
       \/ WriteCall(w)
       \/ WriteLock(w)
       \/ WriteReturn(w)
       \/ PathCall(w)
       \/ PathReturn(w)

InitLock ==
    /\ Init
    /\ store = [c \in Containers |-> << >>]
    /\ client = NewClient(1, FALSE)

SpecLock == InitLock /\ [][NextLock]_vars

(***************************************************************************)
(* Properties of the lock discipline (SpecLock).                           *)
(***************************************************************************)
\* the field the next step of worker w accesses, and how
Access(w) ==
    LET pc1 == Caller(w).pc
    IN  IF pc1 \in {"readPath", "readStateFile"} THEN [field |-> "stateFile", write |-> FALSE]
        ELSE IF pc1 = "assignPath" THEN [field |-> "stateFile", write |-> TRUE]
        ELSE IF pc1 \in {"readData", "writeFile"} THEN [field |-> "data", write |-> FALSE]
        ELSE IF pc1 = "writeData" THEN [field |-> "data", write |-> TRUE]
        ELSE [field |-> "none", write |-> FALSE]

\* two workers are about to access the same field, one of them writing
Race(w1, w2) ==
    /\ w1 # w2
    /\ Access(w1).field # "none"
    /\ Access(w1).field = Access(w2).field
    /\ Access(w1).write \/ Access(w2).write

\* C29: a worker about to write a field of the Manager holds the write lock;
\* a Save is never about to write a field; and a Save never races with
\* another Save, a GetLastTimestamp or a GetAllEntries.
C29_LockDiscipline ==
    /\ \A w \in Workers : Access(w).write => mu.writer = w
    /\ \A w \in Workers : Caller(w).op = "save" => ~Access(w).write
    /\ \A w1, w2 \in Workers :
          (Caller(w1).op = "save" /\ Caller(w2).op \in {"save", "get", "entries"}) =>
             ~Race(w1, w2)

(***************************************************************************)
(* db.Open, Query and Close in a read session (SpecDb): one GetHistory     *)
(* call of an adapter on a store whose browser may be running.  orig holds *)
(* which side files exist next to the original store and how often it was  *)
(* written; temp holds the files of this session's temporary copy, whose   *)
(* name os.CreateTemp makes new for every Open.                            *)
(***************************************************************************)
\* openWithWAL(dbPath) on the original store: sql.Open and Ping with the DSN
\* file:<path>?mode=ro&_journal_mode=WAL&_busy_timeout=5000.  The comment in
\* the code announces immutable mode, the DSN does not ask for it: a mode=ro
\* connection to a store in WAL mode keeps the wal-index, so SQLite creates
\* the -shm and -wal files next to the store when they are missing and the
\* directory is writable; a store in rollback mode, or a directory that is
\* not writable, is left alone.  touched says which of the two happens.
openWithWAL(o, touched) ==
    IF touched THEN [o EXCEPT !.wal = TRUE, !.shm = TRUE] ELSE o

\* copyIfExists(src, dst): dst exists afterwards when src exists and both
\* files could be opened; errors are ignored
copyIfExists(srcExists, ok) == srcExists /\ ok

\* copyToTemp(dbPath): the temporary files afterwards and whether it
\* succeeded.  created, opened, copied: os.CreateTemp, os.Open(dbPath) and
\* io.Copy succeed; walOk, shmOk: the side files can be copied
copyToTemp(o, created, opened, copied, walOk, shmOk) ==
    IF ~created THEN [temp |-> NoTemp, ok |-> FALSE]
    ELSE IF ~opened THEN [temp |-> NoTemp, ok |-> FALSE]
    ELSE IF ~copied THEN [temp |-> NoTemp, ok |-> FALSE]
    ELSE [temp |-> [db |-> TRUE, wal |-> copyIfExists(o.wal, walOk),
                    shm |-> copyIfExists(o.shm, shmOk)],
          ok |-> TRUE]

\* the error branch of Open after the copy could not be opened
RemoveTempPath(t) == [t EXCEPT !.db = FALSE]

\* a Close that removes the copy and leaves its side files
Close_KeepsSideFiles(t, tempCopy) == IF tempCopy THEN [t EXCEPT !.db = FALSE] ELSE t

\* DB.Close: the copy and its side files are removed when tempCopy is set
Close(t, tempCopy) == IF tempCopy THEN NoTemp ELSE t

\* the browser runs, writes its store and stops: the side files come and go
BrowserWrites ==
    /\ sess.step = "idle"
    /\ orig.version < MaxWrites
    /\ \E running \in BOOLEAN :
          orig' = [wal |-> running, shm |-> running, version |-> orig.version + 1]
    /\ UNCHANGED << scanVars, call, stateVars, persistVars, callers, ff, temp, sess >>

\* db.Open(historyPath) succeeds at the first attempt
OpenDirect ==
    /\ sess.step = "idle"
    /\ sess.n < MaxRuns
    /\ \E touched \in BOOLEAN : orig' = openWithWAL(orig, touched)
    /\ temp' = NoTemp
    /\ sess' = [step |-> "open", tempCopy |-> FALSE, tookTemp |-> FALSE,
                openErr |-> FALSE, n |-> sess.n + 1]
    /\ UNCHANGED << scanVars, call, stateVars, persistVars, callers, ff >>

\* db.Open(historyPath) fails at the first attempt and takes the copy path;
\* GetHistory returns the error when Open fails
OpenCopy ==
    /\ sess.step = "idle"
    /\ sess.n < MaxRuns
    /\ \E touched, created, opened, copied, walOk, shmOk, reopened, sideFiles \in BOOLEAN :
          LET c == copyToTemp(orig, created, opened, copied, walOk, shmOk)
          IN  /\ orig' = openWithWAL(orig, touched)
              /\ IF ~c.ok
                 THEN /\ temp' = c.temp
                      /\ sess' = [step |-> "ended", tempCopy |-> FALSE, tookTemp |-> TRUE,
                                  openErr |-> TRUE, n |-> sess.n + 1]
                 ELSE IF ~reopened
                 THEN /\ temp' = RemoveTempPath(c.temp)
                      /\ sess' = [step |-> "ended", tempCopy |-> FALSE, tookTemp |-> TRUE,
                                  openErr |-> TRUE, n |-> sess.n + 1]
                 ELSE /\ temp' = IF sideFiles
                                 THEN [c.temp EXCEPT !.wal = TRUE, !.shm = TRUE]
                                 ELSE c.temp
                      /\ sess' = [step |-> "open", tempCopy |-> TRUE, tookTemp |-> TRUE,
                                  openErr |-> FALSE, n |-> sess.n + 1]
    /\ UNCHANGED << scanVars, call, stateVars, persistVars, callers, ff >>

\* database.Query fails: GetHistory returns, the deferred Close runs
QueryFails ==
    /\ sess.step = "open"
    /\ temp' = Close(temp, sess.tempCopy)
    /\ sess' = [sess EXCEPT !.step = "ended"]
    /\ UNCHANGED << scanVars, call, stateVars, persistVars, callers, ff, orig >>

\* database.Query succeeds
QueryRows ==
    /\ sess.step = "open"
    /\ sess' = [sess EXCEPT !.step = "rows"]
    /\ UNCHANGED << scanVars, call, stateVars, persistVars, callers, ff, orig, temp >>

\* the row loop ends, with rows.Err() nil or not: GetHistory returns, the
\* deferred rows.Close and Close run
RowsEnd ==
    /\ sess.step = "rows"
    /\ \E rowsErr \in BOOLEAN :
          /\ temp' = Close(temp, sess.tempCopy)
          /\ sess' = [sess EXCEPT !.step = "ended"]
    /\ UNCHANGED << scanVars, call, stateVars, persistVars, callers, ff, orig >>

\* the scanner goes on to the next profile
NextSession ==
    /\ sess.step = "ended"
    /\ sess' = [sess EXCEPT !.step = "idle"]
    /\ UNCHANGED << scanVars, call, stateVars, persistVars, callers, ff, orig, temp >>

NextDb ==
    \/ BrowserWrites
    \/ OpenDirect
    \/ OpenCopy
    \/ QueryFails
    \/ QueryRows
    \/ RowsEnd
    \/ NextSession

InitDb ==
    /\ Init
    /\ store = [c \in Containers |-> << >>]
    /\ client = NewClient(1, FALSE)

SpecDb == InitDb /\ [][NextDb]_vars

(***************************************************************************)
(* Properties of the read session (SpecDb).                                *)
(***************************************************************************)
TempFiles == {f \in {"db", "wal", "shm"} : temp[f]}

\* C22: when Open took the copy path and returned a handle, the temporary
\* copy and its -wal and -shm files are gone once GetHistory has returned,
\* whether the query failed, the row loop ended normally or with an error.
C22_SnapshotCleanup ==
    (sess.step = "ended" /\ sess.tookTemp /\ ~sess.openErr) => TempFiles = {}

\* the session read a temporary copy that had both side files, and ended
C22_Witness ==
    /\ sess.step = "ended"
    /\ sess.tookTemp /\ sess.tempCopy /\ ~sess.openErr
    /\ orig.wal /\ orig.shm
    /\ TempFiles = {}

\* a step of the session: of Open, Query, the row loop or Close
SessionStep == sess' # sess /\ sess.step # "ended"

\* C23: no step of Open, Query or Close creates, writes or removes the
\* original store's -wal and -shm files or the store itself.
C23_OriginalUntouched ==
    [][SessionStep => orig' = orig]_vars

\* C28: when Open returns an error, none of the files it created is left:
\* neither the temporary copy nor its -wal or -shm file.
C28_NoLeakOnFailedOpen ==
    (sess.step = "ended" /\ sess.openErr) => TempFiles = {}

(***************************************************************************)
(* FirefoxBrowser.FindProfiles (SpecIni): the discovery of the profiles of *)
(* one user.  A path is the tuple of its elements; a line of profiles.ini  *)
(* is given by what TrimSpace, HasPrefix/HasSuffix and SplitN find in it:  *)
(* a section header with its name, a key=value pair, or anything else.     *)
(***************************************************************************)
ProfilesDir == "profiles"

\* the directories of ProfilesDir, in the order of os.ReadDir
DirEntries == << "a.default", "b" >>

\* the values of Path in the manifest: a directory of ProfilesDir, and an
\* absolute path elsewhere
AbsolutePath == "/abs/c"

Join(dir, name) == << dir, name >>

\* filepath.Join(profilesDir, path) when IsRelative=1, else the path as given
ProfilePath(path, isRelative) ==
    IF isRelative THEN Join(ProfilesDir, path) ELSE << path >>

\* filepath.Base
Base(path) == path[Len(path)]

\* the part of a directory's name after its first dot, else the whole name
DisplayName(name) == IF name = "a.default" THEN "default" ELSE name

PlacesPaths ==
    { Join(ProfilesDir, DirEntries[i]) : i \in DOMAIN DirEntries } \cup { << AbsolutePath >> }

Section(name) == [kind |-> "section", name |-> name, key |-> "", value |-> ""]

KeyValue(key, value) == [kind |-> "kv", name |-> "", key |-> key, value |-> value]

\* a line that is neither a section header nor key=value
Junk == [kind |-> "junk", name |-> "", key |-> "", value |-> ""]

IniLines ==
    { Section("Profile0"), Section("General"),
      KeyValue("Path", "a.default"), KeyValue("Path", AbsolutePath),
      KeyValue("IsRelative", "1"), KeyValue("Name", "work"), Junk }

\* strings.HasPrefix(section, "Profile")
IsProfileSection(name) == name = "Profile0"

NoCurrentProfile == [name |-> "", path |-> "", isRelative |-> FALSE]

\* the profile a finished section adds: none when the section is no profile,
\* has no Path, or its places.sqlite does not exist (os.Stat fails)
SectionProfiles(inProfile, cur, places) ==
    IF inProfile /\ cur.path # ""
    THEN LET profilePath == ProfilePath(cur.path, cur.isRelative)
         IN  IF profilePath \in places
             THEN << [Name |-> IF cur.name = "" THEN Base(profilePath) ELSE cur.name,
                      Path |-> profilePath] >>
             ELSE << >>
    ELSE << >>

\* the loop over the lines of profiles.ini, from line i on
RECURSIVE ParseLines(_, _, _, _, _, _)
ParseLines(lines, i, inProfile, cur, profiles, places) ==
    IF i > Len(lines)
    THEN profiles \o SectionProfiles(inProfile, cur, places)
    ELSE LET line == lines[i]
         IN  IF line.kind = "section"
             THEN ParseLines(lines, i + 1, IsProfileSection(line.name), NoCurrentProfile,
                             profiles \o SectionProfiles(inProfile, cur, places), places)
             ELSE IF ~inProfile \/ line.kind # "kv"
             THEN ParseLines(lines, i + 1, inProfile, cur, profiles, places)
             ELSE LET cur2 ==
                          IF line.key = "Name" THEN [cur EXCEPT !.name = line.value]
                          ELSE IF line.key = "Path" THEN [cur EXCEPT !.path = line.value]
                          ELSE IF line.key = "IsRelative"
                          THEN [cur EXCEPT !.isRelative = (line.value = "1")]
                          ELSE cur
                  IN  ParseLines(lines, i + 1, inProfile, cur2, profiles, places)

\* parseProfilesIni: an error when os.Open fails (the manifest is absent or
\* unreadable) or when the scanner reports one (scanErr: a failed read or a
\* line longer than its buffer), else the profiles of the sections
parseProfilesIni(f, scanErr) ==
    IF f.manifest # "present"
    THEN [profiles |-> << >>, err |-> TRUE]
    ELSE [profiles |-> ParseLines(f.lines, 1, FALSE, NoCurrentProfile, << >>, f.places),
          err |-> scanErr]

\* the loop of scanForProfiles over the directories, from entry i on
RECURSIVE ScanEntries(_, _)
ScanEntries(i, places) ==
    IF i > Len(DirEntries) THEN << >>
    ELSE LET name == DirEntries[i]
             profilePath == Join(ProfilesDir, name)
         IN  (IF profilePath \in places
              THEN << [Name |-> DisplayName(name), Path |-> profilePath] >>
              ELSE << >>) \o ScanEntries(i + 1, places)

\* scanForProfiles: an error when os.ReadDir fails
scanForProfiles(f, readDirOk) ==
    IF ~readDirOk THEN [profiles |-> << >>, err |-> TRUE]
    ELSE [profiles |-> ScanEntries(1, f.places), err |-> FALSE]

\* FindProfiles for a profiles directory that exists
FindProfiles(f, scanErr, readDirOk) ==
    LET parsed == parseProfilesIni(f, scanErr)
    IN  IF parsed.err
        THEN LET scanned == scanForProfiles(f, readDirOk)
             IN  [f EXCEPT !.called = TRUE, !.fellBack = TRUE,
                           !.profiles = scanned.profiles, !.err = scanned.err]
        ELSE [f EXCEPT !.called = TRUE, !.fellBack = FALSE,
                       !.profiles = parsed.profiles, !.err = FALSE]

iniFrame == << scanVars, call, stateVars, persistVars, callers, dbVars >>

\* Firefox, or the user, writes a line of profiles.ini
WriteLine ==
    /\ ~ff.called
    /\ ff.manifest # "unreadable"
    /\ Len(ff.lines) < MaxLines
    /\ \E line \in IniLines :
          ff' = [ff EXCEPT !.manifest = "present", !.lines = Append(@, line)]
    /\ UNCHANGED iniFrame

\* profiles.ini exists and the scanner may not read it
MakeUnreadable ==
    /\ ~ff.called
    /\ ff.manifest = "present"
    /\ ff' = [ff EXCEPT !.manifest = "unreadable"]
    /\ UNCHANGED iniFrame

\* a profile gets its places.sqlite
CreatePlaces ==
    /\ ~ff.called
    /\ \E path \in PlacesPaths \ ff.places :
          ff' = [ff EXCEPT !.places = @ \cup {path}]
    /\ UNCHANGED iniFrame

FindProfilesCall ==
    /\ ~ff.called
    /\ \E scanErr, readDirOk \in BOOLEAN :
          ff' = FindProfiles(ff, scanErr, readDirOk)
    /\ UNCHANGED iniFrame

NextIni ==
    \/ WriteLine
    \/ MakeUnreadable
    \/ CreatePlaces
    \/ FindProfilesCall

InitIni ==
    /\ Init
    /\ store = [c \in Containers |-> << >>]
    /\ client = NewClient(1, FALSE)

SpecIni == InitIni /\ [][NextIni]_vars

(***************************************************************************)
(* Properties of the discovery (SpecIni).                                  *)
(***************************************************************************)
\* the manifest has a line that is no section header and no key=value
Malformed ==
    /\ ff.manifest = "present"
    /\ \E i \in DOMAIN ff.lines : ff.lines[i] = Junk

\* C24: FindProfiles falls back to the directory scan whenever profiles.ini
\* is absent, unreadable or malformed, and every profile it returns, by the
\* manifest or by the scan, has its places.sqlite at that time.
C24_ManifestFallback ==
    ff.called =>
        /\ (ff.manifest # "present" \/ Malformed) => ff.fellBack
        /\ \A i \in DOMAIN ff.profiles : ff.profiles[i].Path \in ff.places

=============================================================================
